---- MODULE Spec2Model ----
(***************************************************************************)
(* A model of the remote-grid synchronisation engine of place-ui.          *)
(*                                                                         *)
(*   Part I   the Request Scheduler: ThrottledProvider (lib/web3utils)     *)
(*   Part II  the Grid Cache: useCanvasStore and the Canvas component's    *)
(*            loadVisibleChunks / setupPeriodicUpdates                     *)
(*   Part III getVisibleChunks                                             *)
(*   Part IV  the Subscription Manager: EthersCanvasService.onPixelPainted *)
(*   Part V   the Degradation Controller: CanvasServiceProvider            *)
(*   Part VI  the write path: paintPixel                                   *)
(*   Part VII the region reads of EthersCanvasService.getCanvasSection     *)
(*   Part VIII the activity feed: useUIStore                               *)
(*   Part IX  the actions of useCanvasStore, called in any order           *)
(*                                                                         *)
(* Every part has its own specification over the module's variables; the   *)
(* variables of the other parts stay at their initial values.              *)
(***************************************************************************)
EXTENDS Integers, Sequences, FiniteSets, TLC

VARIABLES
    \* ---- Part I: ThrottledProvider
    requestQueue,   \* Seq of call ids: the queued request closures, head first
    isProcessing,   \* the pump flag
    maxBatchSize,   \* K
    requestDelay,   \* ms waited by a closure before its first send
    calls,          \* call id -> the state of its closure and of its promise
    nextId,         \* the id the next enqueued call gets (ids are enqueue order)
    batch,          \* the closures the pump awaits in Promise.all
    remote,         \* requests sent with super.send and not yet answered
    lastAnswer,     \* history: the answer the remote gave in the last step, if any
    dispatchLog,    \* history: call ids in the order of their first super.send
    sendCall,       \* history: the send(method, params) made by the last step, if any
    sendReturn,     \* history: what that send() returned without queueing, if anything
    \* ---- Part II: Grid Cache
    canvasWidth,    \* store: grid width in cells
    canvasHeight,   \* store: grid height in cells
    chunks,         \* store: ChunkKey -> chunk, defined for the present chunks only
    loadingChunks,  \* store: ChunkKey -> BOOLEAN, defined for the keys ever marked
    viewport,       \* store: [scale, offsetX, offsetY, selectedX, selectedY]
    rendered,       \* TRUE when the Canvas effect has run for the current store state
    intervalActive, \* the refresh interval of setupPeriodicUpdates is set
    passes,         \* slot -> a running loadVisibleChunks call: its closure and position
    ticks,          \* slot -> a running interval callback of setupPeriodicUpdates
    lastOp,         \* history: what the last step did to the store, if anything
    \* ---- Part III: getVisibleChunks
    visStore,       \* the store fields getVisibleChunks reads
    visibleChunks,  \* what the last getVisibleChunks() call returned
    \* ---- Part IV: the PixelPainted subscription of EthersCanvasService
    contract,          \* this.contract: the number of the service's contract object
    listeners,         \* contract object -> how often `listener` is registered on it
    errorHandler,      \* handleConnectionError is registered on the first provider
    isConnected,       \* closure variable of onPixelPainted
    reconnectAttempts, \* closure variable of onPixelPainted
    reconnectTimer,    \* the delay of the pending reconnect timer, 0 when none
    subState,          \* "none", "subscribed" or "unsubscribed"
    unsubscribeKind,   \* what onPixelPainted returned: the "real" cleanup or the "noop"
    provError,         \* the owner's error state (CanvasServiceProvider)
    failedAttempts,    \* history: failed reconnects in a row since last connected
    lastCall,          \* history: how often the last step invoked the callback
    timersPending,     \* history: the reconnect timers set and not yet fired
    lastError,         \* history: what handleConnectionError did in the last step
    \* ---- Part V: the initialization effect of CanvasServiceProvider
    mounted,           \* the provider component is mounted
    retryCount,        \* component state
    canvasService,     \* component state: "none", "ethers" or "mock"
    loading,           \* component state
    error,             \* component state: "none" or what setError was called for
    isUsingFallback,   \* component state
    effectDirty,       \* the effect has to run: mount, or retryCount changed
    runs,              \* the runs of the effect so far: [r, isMounted, path, pc] each
    liveSubs,          \* the runs whose onPixelPainted subscription is live
    lastUpdates,       \* history: updatePixel / addActivityItem calls of the last step
    installedBy,       \* the run that made the installed service, 0 for none
    homeDirty,         \* Home's effect on canvasService has to run
    storeDims,         \* the store's <<canvasWidth, canvasHeight>>
    dimsRead,          \* history: setDimensions was called with a contract's answer
    mockSubs,          \* the runs whose mock has the cell-change callback
    mockWrite,         \* the run whose mock has a paintPixel timer pending, 0 for none
    consecFailures,    \* history: attempts ended in the catch since the last success
    dimFailures,       \* history: attempts in a row whose dimension read failed
    lastStep,          \* history: what the last step was
    \* ---- Part VI: the write path
    signer,            \* this.signer of the installed EthersCanvasService is set
    paintPc,           \* where the running paintPixel call waits: "idle" for none
    uiIsLoading,       \* Canvas state isLoading
    sendCalls,         \* history: contract.paintPixel calls of the current click
    txSent,            \* history: transactions submitted by the current click
    result,            \* the TransactionResult the last paintPixel call returned
    alert,             \* what the handler showed for it: "none" or the text
    clicks,            \* the clicks on the paint button so far
    lastWrite,         \* history: the write-path step just taken, if any
    \* ---- Part VII: the region reads of one getCanvasSection call
    sectionReq,        \* the arguments of the call: [startX, startY, width, height]
    sectionPos,        \* the loop variables <<chunkX, chunkY>>
    sectionReads,      \* history: the regions read from the contract so far
    sectionLast,       \* history: how the last region read ended, if one was made
    \* ---- Part VIII: the activity feed of useUIStore
    activity,          \* store: the items, first to last
    clock,             \* what Date.now() returns
    added,             \* history: the items added since the last clear, oldest first
    eventCount         \* history: addActivityItem calls so far

schedVars == <<requestQueue, isProcessing, maxBatchSize, requestDelay, calls,
               nextId, batch, remote, lastAnswer, dispatchLog, sendCall, sendReturn>>
cacheVars == <<canvasWidth, canvasHeight, chunks, loadingChunks, viewport, rendered,
               intervalActive, passes, ticks, lastOp>>
visVars == <<visStore, visibleChunks>>
subVars == <<contract, listeners, errorHandler, isConnected, reconnectAttempts,
             reconnectTimer, subState, unsubscribeKind, provError, failedAttempts,
             lastCall, timersPending, lastError>>
initVars == <<mounted, retryCount, canvasService, loading, error, isUsingFallback, effectDirty,
              runs, liveSubs, lastUpdates, installedBy, homeDirty, storeDims, dimsRead,
              mockSubs, mockWrite, consecFailures, dimFailures, lastStep>>
writeVars == <<signer, paintPc, uiIsLoading, sendCalls, txSent, result, alert, clicks, lastWrite>>
sectionVars == <<sectionReq, sectionPos, sectionReads, sectionLast>>
feedVars == <<activity, clock, added, eventCount>>
vars == <<schedVars, cacheVars, visVars, subVars, initVars, writeVars, sectionVars, feedVars>>
\* What the steps of a part leave alone: the variables of the other parts
nonSchedVars == <<cacheVars, visVars, subVars, initVars, writeVars, sectionVars, feedVars>>
nonCacheVars == <<schedVars, visVars, subVars, initVars, writeVars, sectionVars, feedVars>>
nonVisVars == <<schedVars, cacheVars, subVars, initVars, writeVars, sectionVars, feedVars>>
nonSubVars == <<schedVars, cacheVars, visVars, initVars, writeVars, sectionVars, feedVars>>
nonInitVars == <<schedVars, cacheVars, visVars, subVars, writeVars, sectionVars, feedVars>>
nonWriteVars == <<schedVars, cacheVars, visVars, subVars, initVars, sectionVars, feedVars>>
nonSectionVars == <<schedVars, cacheVars, visVars, subVars, initVars, writeVars, feedVars>>
nonFeedVars == <<schedVars, cacheVars, visVars, subVars, initVars, writeVars, sectionVars>>

(***************************************************************************)
(* Part I.  The Request Scheduler                                          *)
(***************************************************************************)

\* Bound: the number of calls send() may queue in one run.
MaxCalls == 3

\* private maxBatchSize = 1
InitialMaxBatchSize == 1
\* private requestDelay = 50
InitialRequestDelay == 50
\* this.requestDelay += 50
DelayIncrement == 50

CallIds == 1..MaxCalls

\* The JSON-RPC methods send() is called with: the contract read, the chain id
\* query, another pure read, and the state-changing transaction submission.
Methods == {"eth_call", "eth_chainId", "eth_blockNumber", "eth_sendRawTransaction"}
WriteMethods == {"eth_sendRawTransaction"}
ReadMethods == Methods \ WriteMethods

\* knownIssues: selector -> mockResponse.
knownIssues ==
    [sel \in {"0xd44d3394", "0x69ea80d5", "0xbb3c358c", "0xe59252c9", "0xc58f4da7"} |->
        CASE sel = "0xd44d3394" -> "[0,0]"
          [] sel = "0x69ea80d5" -> "[0,0]"
          [] sel = "0xbb3c358c" -> "[0,0]"
          [] sel = "0xe59252c9" -> "0xFFFFFF"
          [] sel = "0xc58f4da7" -> "[[]]"]

\* callData.startsWith(...) of the ENS short-circuit.
EnsSelectors == {"0x01ffc9a7", "0x9061b923", "0x3b3b57de"}

\* The first ten characters of params[0].data: the known-bad selectors, an ENS
\* one, a selector in neither table, and "nodata" for params without data.
Selectors == DOMAIN knownIssues \cup {"0x01ffc9a7", "0x70a08231", "nodata"}

\* The (method, params) pairs send() is called with.
SendInputs ==
    {[method |-> "eth_call", sel |-> s] : s \in Selectors}
    \cup {[method |-> m, sel |-> "nodata"] : m \in Methods \ {"eth_call"}}

\* Errors a send attempt ends with.  "timer_timeout" is the rejection of the
\* timeoutPromise; the others are rejections of super.send, classified by what
\* their message contains.
RemoteErrors == {"remote_overload", "remote_timedout", "remote_overload_timedout",
                 "remote_other"}
Errors == RemoteErrors \cup {"timer_timeout"}

\* error.message.includes("Batch size is too large")
IsOverload(e) == e \in {"remote_overload", "remote_overload_timedout"}
\* error.message.includes("timed out")
IsTimedOut(e) == e \in {"timer_timeout", "remote_timedout", "remote_overload_timedout"}

\* A call: the method it was made with, where its closure stands (pc), how
\* often it was sent, how its promise is settled (kind, val), and as history
\* the error the outer catch caught and the error of its latest attempt.
NoCall == [method |-> "none", pc |-> "unused", sends |-> 0, kind |-> "pending",
           val |-> "none", caught |-> "none", lastErr |-> "none"]

\* A settled call whose closure has returned to the pump: nothing of it is kept.
Retired == [NoCall EXCEPT !.pc = "retired"]

Range(s) == {s[i] : i \in DOMAIN s}

Min(a, b) == IF a < b THEN a ELSE b
Max(a, b) == IF a > b THEN a ELSE b

NoSend == [method |-> "none", sel |-> "none"]
NoAnswer == [id |-> 0, attempt |-> 0, outcome |-> "none", awaited |-> FALSE]

\* Mutant of KnownIssue: the table lacks the getCanvasSection entry.
KnownIssueMissingEntry(method, sel) ==
    method = "eth_call" /\ sel \in DOMAIN knownIssues \ {"0xc58f4da7"}

\* if (functionSelector === signature) for a signature of knownIssues
KnownIssue(method, sel) == method = "eth_call" /\ sel \in DOMAIN knownIssues

\* The ENS short-circuit: callData.startsWith(one of the ENS selectors)
EnsSkip(method, sel) == method = "eth_call" /\ sel \in EnsSelectors

\* Mutant of Splice: the batch is taken from the tail of the queue.
SpliceTail(q, n) ==
    [taken |-> SubSeq(q, Len(q) - Min(n, Len(q)) + 1, Len(q)),
     rest  |-> SubSeq(q, 1, Len(q) - Min(n, Len(q)))]

\* requestQueue.splice(0, n): what is taken and what stays
Splice(q, n) ==
    [taken |-> SubSeq(q, 1, Min(n, Len(q))),
     rest  |-> SubSeq(q, Min(n, Len(q)) + 1, Len(q))]

\* resolve(v) / reject(e) of the caller's promise, and the closure returns
Resolve(c, v) == [c EXCEPT !.pc = "done", !.kind = "resolved", !.val = v]
Reject(c, e) == [c EXCEPT !.pc = "done", !.kind = "rejected", !.val = e]

\* The timeout branch of the outer catch: what the promise of call c is
\* settled with when the caught error says "timed out".
TimedOutBranch(c, e) ==
    IF c.method = "eth_call" THEN Resolve(c, "0x")
    ELSE IF c.method = "eth_chainId" THEN Resolve(c, "0x1")
    ELSE Reject(c, e)

\* The overload branch of the outer catch, up to its cooldown await
OverloadBranch(c) == [c EXCEPT !.pc = "cooldown"]

\* Mutant of RetryCatch: the retry's error is swallowed like a read timeout.
RetryCatchSwallow(c, e) == Resolve(c, "0x")

\* catch (retryError) of the overload branch
RetryCatch(c, e) == Reject(c, e)

\* Mutant of OuterCatch: the overload branch retries without backing off.
OuterCatchNoBackoff(id, e) ==
    LET c == [calls[id] EXCEPT !.caught = e, !.lastErr = e] IN
    /\ calls' = [calls EXCEPT ![id] =
                   IF IsOverload(e) THEN OverloadBranch(c)
                   ELSE IF IsTimedOut(e) THEN TimedOutBranch(c, e) ELSE Reject(c, e)]
    /\ UNCHANGED <<maxBatchSize, requestDelay>>

\* catch (error) of the request closure, for the error e of the first attempt
OuterCatch(id, e) ==
    LET c == [calls[id] EXCEPT !.caught = e, !.lastErr = e] IN
    IF IsOverload(e)
    THEN /\ calls' = [calls EXCEPT ![id] = OverloadBranch(c)]
         /\ maxBatchSize' = 1
         /\ requestDelay' = requestDelay + DelayIncrement
    ELSE /\ calls' = [calls EXCEPT ![id] =
                        IF IsTimedOut(e) THEN TimedOutBranch(c, e) ELSE Reject(c, e)]
         /\ UNCHANGED <<maxBatchSize, requestDelay>>

\* One turn of the while loop of processQueue over queue q and call states cs:
\* take a batch and start its closures (each runs to its delay await), or
\* leave the loop and clear the flag.
PumpTurn(q, cs) ==
    IF Len(q) > 0
    THEN LET sp == Splice(q, maxBatchSize) IN
         /\ requestQueue' = sp.rest
         /\ batch' = Range(sp.taken)
         /\ calls' = [i \in CallIds |->
                        IF i \in Range(sp.taken) THEN [cs[i] EXCEPT !.pc = "delay"]
                        ELSE cs[i]]
         /\ isProcessing' = TRUE
    ELSE /\ requestQueue' = q
         /\ batch' = {}
         /\ calls' = cs
         /\ isProcessing' = FALSE

\* send(): the promise executor: push the closure, start the pump if idle
Enqueue(method) ==
    /\ nextId <= MaxCalls
    /\ LET q == Append(requestQueue, nextId)
           cs == [calls EXCEPT ![nextId] =
                    [NoCall EXCEPT !.method = method, !.pc = "queued"]]
       IN IF ~isProcessing
          THEN PumpTurn(q, cs)
          ELSE /\ requestQueue' = q
               /\ calls' = cs
               /\ UNCHANGED <<batch, isProcessing>>
    /\ nextId' = nextId + 1

\* send(method, params)
Send(method, sel) ==
    /\ sendCall' = [method |-> method, sel |-> sel]
    /\ lastAnswer' = NoAnswer
    /\ IF KnownIssue(method, sel)
       THEN /\ sendReturn' = knownIssues[sel]
            /\ UNCHANGED <<requestQueue, isProcessing, calls, nextId, batch>>
       ELSE IF EnsSkip(method, sel)
       THEN /\ sendReturn' = "null"
            /\ UNCHANGED <<requestQueue, isProcessing, calls, nextId, batch>>
       ELSE /\ sendReturn' = "promise"
            /\ Enqueue(method)
    /\ UNCHANGED <<maxBatchSize, requestDelay, remote, dispatchLog>>
    /\ UNCHANGED nonSchedVars

\* The requestDelay timer of a closure fires: the timeout is armed and the
\* request goes out with super.send
DelayElapsed(id) ==
    /\ calls[id].pc = "delay"
    /\ calls' = [calls EXCEPT ![id].pc = "racing", ![id].sends = @ + 1]
    /\ remote' = remote \cup {[id |-> id, attempt |-> 1]}
    /\ dispatchLog' = Append(dispatchLog, id)
    /\ sendCall' = NoSend /\ sendReturn' = "none" /\ lastAnswer' = NoAnswer
    /\ UNCHANGED <<requestQueue, isProcessing, maxBatchSize, requestDelay, nextId, batch>>
    /\ UNCHANGED nonSchedVars

\* The remote answers request r with a result ("ok") or an error.  The answer
\* reaches the closure only while the closure awaits that attempt.
RemoteAnswer(r, out) ==
    /\ r \in remote
    /\ remote' = remote \ {r}
    /\ LET id == r.id
           awaited == \/ r.attempt = 1 /\ calls[id].pc = "racing"
                      \/ r.attempt = 2 /\ calls[id].pc = "retrying"
       IN /\ lastAnswer' = [id |-> id, attempt |-> r.attempt, outcome |-> out,
                            awaited |-> awaited]
          /\ IF ~awaited
             THEN UNCHANGED <<calls, maxBatchSize, requestDelay>>
             ELSE IF out = "ok"
             THEN /\ calls' = [calls EXCEPT ![id] =
                                 Resolve([@ EXCEPT !.lastErr = "none"], "result")]
                  /\ UNCHANGED <<maxBatchSize, requestDelay>>
             ELSE IF r.attempt = 1
             THEN OuterCatch(id, out)
             ELSE /\ calls' = [calls EXCEPT ![id] =
                                 RetryCatch([@ EXCEPT !.lastErr = out], out)]
                  /\ UNCHANGED <<maxBatchSize, requestDelay>>
    /\ sendCall' = NoSend /\ sendReturn' = "none"
    /\ UNCHANGED <<requestQueue, isProcessing, nextId, batch, dispatchLog>>
    /\ UNCHANGED nonSchedVars

\* The maxTimeout timer wins the race; the request stays with the remote
Timeout(id) ==
    /\ calls[id].pc = "racing"
    /\ OuterCatch(id, "timer_timeout")
    /\ sendCall' = NoSend /\ sendReturn' = "none" /\ lastAnswer' = NoAnswer
    /\ UNCHANGED <<requestQueue, isProcessing, nextId, batch, remote, dispatchLog>>
    /\ UNCHANGED nonSchedVars

\* The 500 ms cooldown is over: the retry goes out, awaited without a timeout
CooldownElapsed(id) ==
    /\ calls[id].pc = "cooldown"
    /\ calls' = [calls EXCEPT ![id].pc = "retrying", ![id].sends = @ + 1]
    /\ remote' = remote \cup {[id |-> id, attempt |-> 2]}
    /\ sendCall' = NoSend /\ sendReturn' = "none" /\ lastAnswer' = NoAnswer
    /\ UNCHANGED <<requestQueue, isProcessing, maxBatchSize, requestDelay, nextId,
                   batch, dispatchLog>>
    /\ UNCHANGED nonSchedVars

\* Promise.all(batch) is fulfilled: the pump goes round its loop.  The closures
\* of the batch and their promises are garbage from here on.
PumpResume ==
    /\ isProcessing
    /\ \A id \in batch : calls[id].pc = "done"
    /\ PumpTurn(requestQueue,
                [i \in CallIds |-> IF i \in batch THEN Retired ELSE calls[i]])
    /\ sendCall' = NoSend /\ sendReturn' = "none" /\ lastAnswer' = NoAnswer
    /\ UNCHANGED <<maxBatchSize, requestDelay, nextId, remote, dispatchLog>>
    /\ UNCHANGED nonSchedVars

\* The Grid Cache before the Canvas is mounted.
CacheIdle ==
    /\ canvasWidth = 0
    /\ canvasHeight = 0
    /\ chunks = <<>>
    /\ loadingChunks = <<>>
    /\ viewport = <<>>
    /\ rendered = FALSE
    /\ intervalActive = FALSE
    /\ passes = <<>>
    /\ ticks = <<>>
    /\ lastOp = <<>>

\* No getVisibleChunks() call under study.
VisIdle ==
    /\ visStore = <<>>
    /\ visibleChunks = <<>>

\* No EthersCanvasService constructed.
SubIdle ==
    /\ contract = 0
    /\ listeners = <<>>
    /\ errorHandler = FALSE
    /\ isConnected = FALSE
    /\ reconnectAttempts = 0
    /\ reconnectTimer = 0
    /\ subState = "none"
    /\ unsubscribeKind = "none"
    /\ provError = "none"
    /\ failedAttempts = 0
    /\ lastCall = 0
    /\ timersPending = 0
    /\ lastError = "none"

\* No getCanvasSection call under study.
SectionIdle ==
    /\ sectionReq = <<>>
    /\ sectionPos = <<>>
    /\ sectionReads = <<>>
    /\ sectionLast = "none"

\* No activity feed under study.
FeedIdle ==
    /\ activity = <<>>
    /\ clock = 0
    /\ added = <<>>
    /\ eventCount = 0

\* No paint button clicked.
WriteIdle ==
    /\ signer = FALSE
    /\ paintPc = "idle"
    /\ uiIsLoading = FALSE
    /\ sendCalls = 0
    /\ txSent = 0
    /\ result = <<>>
    /\ alert = "none"
    /\ clicks = 0
    /\ lastWrite = <<>>

\* No CanvasServiceProvider mounted.
ProviderIdle ==
    /\ mounted = FALSE
    /\ retryCount = 0
    /\ canvasService = "none"
    /\ loading = FALSE
    /\ error = "none"
    /\ isUsingFallback = FALSE
    /\ effectDirty = FALSE
    /\ runs = <<>>
    /\ liveSubs = {}
    /\ lastUpdates = 0
    /\ installedBy = 0
    /\ homeDirty = FALSE
    /\ storeDims = <<>>
    /\ dimsRead = FALSE
    /\ mockSubs = {}
    /\ mockWrite = 0
    /\ consecFailures = 0
    /\ dimFailures = 0
    /\ lastStep = "none"

\* The ThrottledProvider as constructed.
SchedIdle ==
    /\ requestQueue = <<>>
    /\ isProcessing = FALSE
    /\ maxBatchSize = InitialMaxBatchSize
    /\ requestDelay = InitialRequestDelay
    /\ calls = [i \in CallIds |-> NoCall]
    /\ nextId = 1
    /\ batch = {}
    /\ remote = {}
    /\ lastAnswer = NoAnswer
    /\ dispatchLog = <<>>
    /\ sendCall = NoSend
    /\ sendReturn = "none"

SchedInit ==
    /\ SchedIdle /\ CacheIdle /\ VisIdle /\ SubIdle /\ ProviderIdle /\ WriteIdle
    /\ SectionIdle /\ FeedIdle

SchedNext ==
    \/ \E in \in SendInputs : Send(in.method, in.sel)
    \/ \E id \in CallIds : DelayElapsed(id)
    \/ \E r \in remote, out \in {"ok"} \cup RemoteErrors : RemoteAnswer(r, out)
    \/ \E id \in CallIds : Timeout(id)
    \/ \E id \in CallIds : CooldownElapsed(id)
    \/ PumpResume

SchedSpec == SchedInit /\ [][SchedNext]_vars

\* The timers fire and the pump's continuation runs; the remote owes nothing.
FairSchedSpec ==
    /\ SchedSpec
    /\ \A id \in CallIds : WF_vars(DelayElapsed(id))
    /\ \A id \in CallIds : WF_vars(Timeout(id))
    /\ \A id \in CallIds : WF_vars(CooldownElapsed(id))
    /\ WF_vars(PumpResume)

(***************************************************************************)
(* Part I.  Properties of the Request Scheduler                            *)
(***************************************************************************)

\* C1: at every moment at most K (maxBatchSize) requests sent by the pump are
\* outstanding at the remote; a request whose call lost the race against the
\* timeout stays outstanding until the remote answers it.
C1_AtMostKOutstanding == Cardinality(remote) <= maxBatchSize

\* C2: every call accepted into the queue eventually settles and the queue
\* eventually drains, whatever the remote does, a remote that never answers
\* included.
C2_EveryCallSettles ==
    /\ \A id \in CallIds :
          (calls[id].pc \in {"queued", "delay", "racing", "cooldown", "retrying"})
              ~> (calls[id].pc \in {"done", "retired"})
    /\ (requestQueue # <<>>) ~> (requestQueue = <<>>)

\* C3: a state-changing call is sent to the remote at most once per enqueue,
\* whatever the outcome of its first send.
C3_WriteSentAtMostOnce ==
    \A id \in CallIds : calls[id].method \in WriteMethods => calls[id].sends <= 1

\* C4: a call that lost the race against the per-call timeout is resolved
\* (with a placeholder) if it is a pure read, whatever the read method, and is
\* rejected with the timeout error if it is state-changing.
C4_TimeoutByKind ==
    \A id \in CallIds :
        (calls[id].pc = "done" /\ calls[id].caught = "timer_timeout") =>
            IF calls[id].method \in ReadMethods
            THEN calls[id].kind = "resolved"
            ELSE calls[id].kind = "rejected" /\ calls[id].val = "timer_timeout"

\* The remote answered in this step with the overload signal.
OverloadAnswered == IsOverload(lastAnswer'.outcome)
\* ... and the answer was the outcome of a first attempt still in its race.
OverloadCaught ==
    OverloadAnswered /\ lastAnswer'.attempt = 1 /\ lastAnswer'.awaited

\* What an overload signal leads to at once: K is 1, the delay has grown, and
\* the call that received it is in its cooldown, sent once so far.
BackedOff ==
    /\ maxBatchSize' = 1
    /\ requestDelay' > requestDelay
    /\ calls'[lastAnswer'.id].pc = "cooldown"
    /\ calls'[lastAnswer'.id].sends = 1

\* What holds in every state after overload signals: K stays 1 once the delay
\* has grown, and a call that received the signal is re-sent once, when its
\* cooldown is over, and never again.
OverloadAftermath ==
    /\ requestDelay > InitialRequestDelay => maxBatchSize = 1
    /\ \A id \in CallIds :
          IsOverload(calls[id].caught) =>
              \/ calls[id].pc = "cooldown" /\ calls[id].sends = 1
              \/ calls[id].pc \in {"retrying", "done"} /\ calls[id].sends = 2

\* C5 as claimed: after the remote answers ANY send of a call with the
\* overload signal, K is 1 from then on, requestDelay is strictly larger than
\* before and never decreases, and the call is re-sent once after the cooldown.
C5_AnyOverloadAnswer ==
    [][/\ OverloadAnswered => BackedOff
       /\ requestDelay' >= requestDelay
       /\ OverloadAftermath']_vars

\* C5, amended: the same for the overload signal that is the outcome of a
\* call's first attempt and arrives before that attempt's timeout.
C5_OverloadCaught ==
    [][/\ OverloadCaught => BackedOff
       /\ requestDelay' >= requestDelay
       /\ OverloadAftermath']_vars

\* A call was answered with the overload signal, re-sent after its cooldown and
\* settled, and the delay has grown.
C5_Witness ==
    \E id \in CallIds :
        /\ IsOverload(calls[id].caught)
        /\ calls[id].pc = "done"
        /\ calls[id].sends = 2
        /\ requestDelay = InitialRequestDelay + DelayIncrement

\* C6: a call is sent at most twice, and a call whose last attempt failed with
\* an error other than a read timeout is rejected with that error.
C6_AtMostTwoSends ==
    \A id \in CallIds :
        /\ calls[id].sends <= 2
        /\ (/\ calls[id].pc = "done"
            /\ calls[id].lastErr # "none"
            /\ ~(IsTimedOut(calls[id].lastErr) /\ calls[id].method \in ReadMethods))
           => (calls[id].kind = "rejected" /\ calls[id].val = calls[id].lastErr)

\* A call was sent twice and its retry failed.
C6_Witness ==
    \E id \in CallIds :
        /\ calls[id].sends = 2
        /\ calls[id].pc = "done"
        /\ calls[id].lastErr = "remote_other"
        /\ calls[id].kind = "rejected"

\* C7: queued calls are dispatched in the order in which they were enqueued
\* (call ids are given in enqueue order): no call is dispatched before a call
\* enqueued earlier.
C7_FifoDispatch ==
    /\ \A i, j \in DOMAIN dispatchLog : i < j => dispatchLog[i] < dispatchLog[j]
    /\ \A b \in Range(dispatchLog) : \A a \in 1..(b - 1) : a \in Range(dispatchLog)

\* Two calls wait in the queue while an earlier call is in its overload
\* cooldown.
C7_Witness ==
    /\ Len(requestQueue) >= 2
    /\ \E id \in CallIds : calls[id].pc = "cooldown"

\* C8: an eth_call whose selector is in the known-bad table returns the
\* table's fallback value and leaves the queue, the pump flag, the calls and
\* the requests at the remote unchanged.
C8_KnownBadShortCircuit ==
    [][(sendCall'.method = "eth_call" /\ sendCall'.sel \in DOMAIN knownIssues) =>
          /\ sendReturn' = knownIssues[sendCall'.sel]
          /\ UNCHANGED <<requestQueue, isProcessing, batch, calls, nextId, remote,
                         dispatchLog>>]_vars

\* A known-bad read returned its fallback value while the pump was busy with
\* a request at the remote and another call was queued.
C8_Witness ==
    /\ sendCall = [method |-> "eth_call", sel |-> "0xc58f4da7"]
    /\ sendReturn = "[[]]"
    /\ isProcessing
    /\ requestQueue # <<>>
    /\ remote # {}

(***************************************************************************)
(* Part II.  The Grid Cache                                                *)
(*                                                                         *)
(* The store (useCanvasStore) and the two fetch loops of the Canvas        *)
(* component, with a data source installed.  The grid is scaled down: the  *)
(* code's 100 x 100 cells in chunks of 20 are GridWidth x GridHeight cells *)
(* in chunks of ChunkSize.                                                 *)
(***************************************************************************)

\* Bounds: the grid, the chunk size, the window (in pixels), and how many
\* loadVisibleChunks calls and interval callbacks run at the same time.
GridWidth == 4
GridHeight == 2
ChunkSize == 2
InnerWidth == 40
InnerHeight == 20
MaxPasses == 2
MaxTicks == 2

\* viewport: { scale: 10, offsetX: 0, offsetY: 0 }
InitialScale == 10
\* selectedX: null, selectedY: null; the coordinates of cells are 0 or more
NullCoord == -1

DEFAULT_COLOR == "#EFEFEF"

\* The colours the contract's getCanvasSection answers a region read with.
FetchColors == {"#FF0000"}
\* How the region read inside getCanvasSection ends: it throws ("failed": an
\* error or a timeout of the remote), or it answers with a colour.
FetchOutcomes == {"failed"} \cup FetchColors
\* The colour of the pixels getCanvasSection resolves with: the read's colour,
\* or the default pixels the result was initialised with when the read threw
\* and the inner catch went on.
OutcomeColor(out) == IF out = "failed" THEN DEFAULT_COLOR ELSE out
\* The colour a PixelPainted event carries.
EventColors == {"#000000"}
\* The cells events are delivered for: the first cell of the first two chunks.
EventCells == {<<0, 0>>, <<ChunkSize, 0>>}
\* The offsets the viewport is dragged to: home, and one chunk to the left.
OffsetsX == {0, -(ChunkSize * InitialScale)}
OffsetsY == {0}

PassSlots == 1..MaxPasses
TickSlots == 1..MaxTicks

\* Math.floor(a / b) and Math.ceil(a / b) for b > 0
FloorDiv(a, b) == a \div b
CeilDiv(a, b) == -((-a) \div b)

\* { ...f, [k]: v }
Put(f, k, v) == [kk \in DOMAIN f \cup {k} |-> IF kk = k THEN v ELSE f[kk]]

\* getVisibleChunks(): the chunk origins covering the visible cells, row by
\* row, for viewport vp, a grid of cw x ch cells, chunks of cs cells and a
\* window of iw x ih pixels.
GetVisibleChunks(vp, cw, ch, cs, iw, ih) ==
    LET visibleStartX == Max(0, FloorDiv(-vp.offsetX, vp.scale))
        visibleStartY == Max(0, FloorDiv(-vp.offsetY, vp.scale))
        visibleEndX == Min(cw, CeilDiv(iw - vp.offsetX, vp.scale))
        visibleEndY == Min(ch, CeilDiv(ih - vp.offsetY, vp.scale))
        startChunkX == FloorDiv(visibleStartX, cs) * cs
        startChunkY == FloorDiv(visibleStartY, cs) * cs
        endChunkX == CeilDiv(visibleEndX, cs) * cs
        endChunkY == CeilDiv(visibleEndY, cs) * cs
        nx == Max(0, CeilDiv(endChunkX - startChunkX, cs))
        ny == Max(0, CeilDiv(endChunkY - startChunkY, cs))
    IN [i \in 1..(nx * ny) |->
            <<startChunkX + ((i - 1) % nx) * cs, startChunkY + ((i - 1) \div nx) * cs>>]

\* The visible chunks of the current store state in the current window
VisibleNow == GetVisibleChunks(viewport, canvasWidth, canvasHeight, ChunkSize,
                               InnerWidth, InnerHeight)

\* What getCanvasSection(startX, startY, w, h) resolves with when the region
\* reads as `color`: h rows of w pixels
SectionData(startX, startY, w, h, color) ==
    [r \in 1..h |-> [c \in 1..w |->
        [x |-> startX + c - 1, y |-> startY + r - 1, color |-> color,
         painted |-> FALSE]]]

\* The chunk fetched for key k: the region is clamped to the grid
FetchedChunk(k, color) ==
    SectionData(k[1], k[2], Min(ChunkSize, canvasWidth - k[1]),
                Min(ChunkSize, canvasHeight - k[2]), color)

\* The store's cache part as a value: [chunks, loadingChunks]
Store == [chunks |-> chunks, loadingChunks |-> loadingChunks]

\* A setChunk that adds the rows to the entry the key has, instead of
\* replacing the entry
SetChunkAppending(st, k, chunk) ==
    [chunks |-> Put(st.chunks, k,
                    IF k \in DOMAIN st.chunks THEN st.chunks[k] \o chunk ELSE chunk),
     loadingChunks |-> Put(st.loadingChunks, k, FALSE)]

\* setChunk(startX, startY, chunk) on store value st, k the chunk's key
SetChunk(st, k, chunk) ==
    [chunks |-> Put(st.chunks, k, chunk),
     loadingChunks |-> Put(st.loadingChunks, k, FALSE)]

\* setChunkLoading(startX, startY, isLoading) on store value st
SetChunkLoading(st, k, isLoading) ==
    [chunks |-> st.chunks,
     loadingChunks |-> Put(st.loadingChunks, k, isLoading)]

\* The key of the chunk that holds cell (x, y)
KeyOf(x, y) == <<FloorDiv(x, ChunkSize) * ChunkSize, FloorDiv(y, ChunkSize) * ChunkSize>>

\* An updatePixel that stamps the pixel and leaves its colour
PaintedChunksKeepingColor(cks, x, y, color) ==
    LET k == KeyOf(x, y)
        row == y - k[2] + 1
        col == x - k[1] + 1
        chunk == cks[k]
    IN Put(cks, k,
           IF row \in DOMAIN chunk /\ col \in DOMAIN chunk[row]
           THEN [chunk EXCEPT ![row][col].painted = TRUE]
           ELSE chunk)

\* The set function of updatePixel(x, y, color) on the chunks map cks, whose
\* chunk for the cell is loaded
PaintedChunks(cks, x, y, color) ==
    LET k == KeyOf(x, y)
        row == y - k[2] + 1
        col == x - k[1] + 1
        chunk == cks[k]
    IN Put(cks, k,
           IF row \in DOMAIN chunk /\ col \in DOMAIN chunk[row]
           THEN [chunk EXCEPT ![row][col].color = color, ![row][col].painted = TRUE]
           ELSE chunk)

\* getPixel(x, y): the pixel, or "null"
GetPixelColor(cks, x, y) ==
    LET k == KeyOf(x, y)
        row == y - k[2] + 1
        col == x - k[1] + 1
    IN IF k \notin DOMAIN cks THEN "null"
       ELSE IF row \in DOMAIN cks[k] /\ col \in DOMAIN cks[k][row]
       THEN cks[k][row][col].color
       ELSE "null"

\* lastOp of a step that did not touch the store, and of one that did
NoOp == [op |-> "none", key |-> <<-1, -1>>, cell |-> <<-1, -1>>, out |-> "none"]
Op(op, key, cell, out) == [op |-> op, key |-> key, cell |-> cell, out |-> out]

\* A slot without a running call
IdlePass == [active |-> FALSE, capChunks |-> {}, capLoading |-> {}, list |-> <<>>,
             idx |-> 0]
IdleTick == [active |-> FALSE, list |-> <<>>, idx |-> 0]

\* The for loop of loadVisibleChunks from position `from`: the first position
\* whose key passes !chunks[chunkKey] && !loadingChunks[chunkKey] for the
\* chunks and loadingChunks the callback closed over; 0 when there is none.
NextToLoad(list, from, capChunks, capLoading) ==
    LET todo == {i \in from..Len(list) :
                    list[i] \notin capChunks /\ list[i] \notin capLoading}
    IN IF todo = {} THEN 0 ELSE CHOOSE i \in todo : \A j \in todo : i <= j

\* loadVisibleChunks in slot p runs from position `from` on store value st to
\* its next await (the key is marked loading and its fetch is started), or to
\* its end.
LoadLoop(st, p, capChunks, capLoading, list, from) ==
    LET i == NextToLoad(list, from, capChunks, capLoading) IN
    IF i = 0
    THEN /\ passes' = [passes EXCEPT ![p] = IdlePass]
         /\ chunks' = st.chunks
         /\ loadingChunks' = st.loadingChunks
    ELSE LET st2 == SetChunkLoading(st, list[i], TRUE) IN
         /\ passes' = [passes EXCEPT ![p] =
                         [active |-> TRUE, capChunks |-> capChunks,
                          capLoading |-> capLoading, list |-> list, idx |-> i]]
         /\ chunks' = st2.chunks
         /\ loadingChunks' = st2.loadingChunks

\* The Canvas effect runs after a render: it calls loadVisibleChunks(), a
\* callback closed over the chunks and loadingChunks of that render, and sets
\* the refresh interval anew.
RunEffect ==
    /\ ~rendered
    /\ LET list == VisibleNow
           capChunks == DOMAIN chunks
           capLoading == {k \in DOMAIN loadingChunks : loadingChunks[k]}
           free == {p \in PassSlots : ~passes[p].active}
       IN IF NextToLoad(list, 1, capChunks, capLoading) = 0
          THEN /\ rendered' = TRUE
               /\ UNCHANGED <<chunks, loadingChunks, passes>>
          ELSE /\ free # {}
               /\ LoadLoop(Store, CHOOSE p \in free : \A q \in free : p <= q,
                           capChunks, capLoading, list, 1)
               /\ rendered' = FALSE
    /\ intervalActive' = TRUE
    /\ lastOp' = NoOp
    /\ UNCHANGED <<canvasWidth, canvasHeight, viewport, ticks>>
    /\ UNCHANGED nonCacheVars

\* The fetch a loadVisibleChunks call awaits resolves: setChunk, then the
\* loop goes on with the closure's chunks and loadingChunks.
PassFetchReturns(p, out) ==
    /\ passes[p].active
    /\ LET ps == passes[p]
           k == ps.list[ps.idx]
       IN /\ LoadLoop(SetChunk(Store, k, FetchedChunk(k, OutcomeColor(out))), p,
                      ps.capChunks, ps.capLoading, ps.list, ps.idx + 1)
          /\ lastOp' = Op("passFetch", k, <<-1, -1>>, out)
    /\ rendered' = FALSE
    /\ UNCHANGED <<canvasWidth, canvasHeight, viewport, intervalActive, ticks>>
    /\ UNCHANGED nonCacheVars

\* An interval callback that leaves out the chunks already present
TickStartSkippingPresent(t) ==
    /\ intervalActive
    /\ ~ticks[t].active
    /\ \A u \in TickSlots : u < t => ticks[u].active
    /\ Len(VisibleNow) > 0
    /\ LET absent == {i \in DOMAIN VisibleNow : VisibleNow[i] \notin DOMAIN chunks}
           first == IF absent = {} THEN 1 ELSE CHOOSE i \in absent : \A j \in absent : i <= j
       IN /\ ticks' = [ticks EXCEPT ![t] = [active |-> TRUE,
                                            list |-> <<VisibleNow[first]>>, idx |-> 1]]
          /\ lastOp' = Op("tickStart", VisibleNow[first], <<-1, -1>>, "none")
    /\ UNCHANGED <<canvasWidth, canvasHeight, chunks, loadingChunks, viewport,
                   rendered, intervalActive, passes>>
    /\ UNCHANGED nonCacheVars

\* The refresh interval fires: the callback starts the fetch of the first
\* visible chunk
TickStart(t) ==
    /\ intervalActive
    /\ ~ticks[t].active
    /\ \A u \in TickSlots : u < t => ticks[u].active
    /\ Len(VisibleNow) > 0
    /\ ticks' = [ticks EXCEPT ![t] = [active |-> TRUE, list |-> VisibleNow, idx |-> 1]]
    /\ lastOp' = Op("tickStart", VisibleNow[1], <<-1, -1>>, "none")
    /\ UNCHANGED <<canvasWidth, canvasHeight, chunks, loadingChunks, viewport,
                   rendered, intervalActive, passes>>
    /\ UNCHANGED nonCacheVars

\* The fetch an interval callback awaits resolves: setChunk, then the fetch of
\* the next visible chunk
TickFetchReturns(t, out) ==
    /\ ticks[t].active
    /\ LET tk == ticks[t]
           k == tk.list[tk.idx]
           st == SetChunk(Store, k, FetchedChunk(k, OutcomeColor(out)))
       IN /\ lastOp' = Op("tickFetch", k, <<-1, -1>>, out)
          /\ chunks' = st.chunks
          /\ loadingChunks' = st.loadingChunks
          /\ ticks' = [ticks EXCEPT ![t] =
                         IF tk.idx < Len(tk.list) THEN [tk EXCEPT !.idx = @ + 1]
                         ELSE IdleTick]
    /\ rendered' = FALSE
    /\ UNCHANGED <<canvasWidth, canvasHeight, viewport, intervalActive, passes>>
    /\ UNCHANGED nonCacheVars

\* An updatePixel that makes the chunk of a cell whose chunk is not present
UpdatePixelCreating(x, y, color) ==
    /\ chunks' = IF KeyOf(x, y) \notin DOMAIN chunks
                 THEN Put(chunks, KeyOf(x, y), FetchedChunk(KeyOf(x, y), color))
                 ELSE PaintedChunks(chunks, x, y, color)
    /\ rendered' = FALSE
    /\ lastOp' = Op("updatePixel", KeyOf(x, y), <<x, y>>, color)
    /\ UNCHANGED <<canvasWidth, canvasHeight, loadingChunks, viewport,
                   intervalActive, passes, ticks>>
    /\ UNCHANGED nonCacheVars

\* updatePixel(x, y, color), called for a PixelPainted event
UpdatePixel(x, y, color) ==
    /\ IF KeyOf(x, y) \notin DOMAIN chunks
       THEN UNCHANGED <<chunks, rendered>>
       ELSE /\ chunks' = PaintedChunks(chunks, x, y, color)
            /\ rendered' = FALSE
    /\ lastOp' = Op("updatePixel", KeyOf(x, y), <<x, y>>, color)
    /\ UNCHANGED <<canvasWidth, canvasHeight, loadingChunks, viewport,
                   intervalActive, passes, ticks>>
    /\ UNCHANGED nonCacheVars

\* setOffset(offsetX, offsetY)
SetOffset(offsetX, offsetY) ==
    /\ viewport' = [viewport EXCEPT !.offsetX = offsetX, !.offsetY = offsetY]
    /\ rendered' = FALSE
    /\ lastOp' = NoOp
    /\ UNCHANGED <<canvasWidth, canvasHeight, chunks, loadingChunks,
                   intervalActive, passes, ticks>>
    /\ UNCHANGED nonCacheVars

\* The store as created and the Canvas mounted, its effect not yet run.
CacheInit ==
    /\ SchedIdle
    /\ VisIdle
    /\ SubIdle
    /\ ProviderIdle
    /\ WriteIdle
    /\ SectionIdle
    /\ FeedIdle
    /\ canvasWidth = GridWidth
    /\ canvasHeight = GridHeight
    /\ chunks = <<>>
    /\ loadingChunks = <<>>
    /\ viewport = [scale |-> InitialScale, offsetX |-> 0, offsetY |-> 0,
                   selectedX |-> NullCoord, selectedY |-> NullCoord]
    /\ rendered = FALSE
    /\ intervalActive = FALSE
    /\ passes = [p \in PassSlots |-> IdlePass]
    /\ ticks = [t \in TickSlots |-> IdleTick]
    /\ lastOp = NoOp

CacheNext ==
    \/ RunEffect
    \/ \E p \in PassSlots, out \in FetchOutcomes : PassFetchReturns(p, out)
    \/ \E t \in TickSlots : TickStart(t)
    \/ \E t \in TickSlots, out \in FetchOutcomes : TickFetchReturns(t, out)
    \/ \E cell \in EventCells, color \in EventColors : UpdatePixel(cell[1], cell[2], color)
    \/ \E ox \in OffsetsX, oy \in OffsetsY : SetOffset(ox, oy)

CacheSpec == CacheInit /\ [][CacheNext]_vars

\* The effect runs after a render, the interval fires while it is set, and
\* getCanvasSection resolves
FairCacheSpec ==
    /\ CacheSpec
    /\ WF_vars(RunEffect)
    /\ WF_vars(\E t \in TickSlots : TickStart(t))
    /\ WF_vars(\E t \in TickSlots, out \in FetchOutcomes : TickFetchReturns(t, out))

\* The keys a running loadVisibleChunks call awaits the fetch of
PassFetching(p) == IF passes[p].active THEN {passes[p].list[passes[p].idx]} ELSE {}

(***************************************************************************)
(* Part II.  Properties of the Grid Cache                                  *)
(***************************************************************************)

\* C9: no ChunkKey is both present in chunks and marked loading.
C9_PresentXorLoading ==
    \A k \in DOMAIN chunks : ~(k \in DOMAIN loadingChunks /\ loadingChunks[k])

\* C10: for every ChunkKey at most one initial-load fetch issued by
\* loadVisibleChunks is in flight at a time.
C10_OneInitialFetchPerKey ==
    \A p, q \in PassSlots : p # q => PassFetching(p) \cap PassFetching(q) = {}

\* C11: when the fetch a loadVisibleChunks pass awaits for a key fails (the
\* region read errors or times out), no chunk is installed for the key and its
\* loading mark is cleared: a key that was absent is neither present nor
\* loading afterwards.
C11_FailedFetchLeavesKeyAbsent ==
    [][(/\ lastOp'.op = "passFetch"
        /\ lastOp'.out = "failed"
        /\ lastOp'.key \notin DOMAIN chunks)
       => /\ lastOp'.key \notin DOMAIN chunks'
          /\ ~(lastOp'.key \in DOMAIN loadingChunks' /\ loadingChunks'[lastOp'.key])]_vars

(***************************************************************************)
(* Part III.  getVisibleChunks                                             *)
(*                                                                         *)
(* getVisibleChunks as a function of what it reads: the store's viewport,  *)
(* grid size and chunk size, and the window size.  The grid size is drawn  *)
(* at the start (setDimensions is called with what the contract answers),  *)
(* the viewport is moved by setOffset and setScale.                        *)
(***************************************************************************)

\* DEFAULT_CANVAS_WIDTH, DEFAULT_CANVAS_HEIGHT, DEFAULT_CHUNK_SIZE
DEFAULT_CANVAS_WIDTH == 100
DEFAULT_CANVAS_HEIGHT == 100
DEFAULT_CHUNK_SIZE == 20
\* scale: Math.max(1, Math.min(40, scale))
MinScale == 1
MaxScale == 40

\* The grid sizes the contract answers WIDTH and HEIGHT with
VisWidths == {GridWidth - 1, GridWidth}
VisHeights == {GridHeight}
\* The arguments of setScale: below the clamp, half the initial scale, the
\* initial scale, above the clamp
VisScales == {MinScale - 1, InitialScale \div 2, InitialScale, MaxScale + 1}
\* The arguments of setOffset, in pixels: half cells at the initial scale, from
\* the grid dragged out of the window on the left to out on the right
VisOffsetsX == {d * (InitialScale \div 2) : d \in (-(2 * GridWidth + 2))..(2 * GridWidth)}
VisOffsetsY == {0, -InitialScale, -((GridHeight + 1) * InitialScale)}

\* visibleChunks when getVisibleChunks() has not been called for the store
NotCalled == <<<<-1, -1>>>>

\* setDimensions(width, height) on the store as created
VisInit ==
    /\ SchedIdle
    /\ CacheIdle
    /\ SubIdle
    /\ ProviderIdle
    /\ WriteIdle
    /\ SectionIdle
    /\ FeedIdle
    /\ visStore \in [viewport : {[scale |-> InitialScale, offsetX |-> 0, offsetY |-> 0]},
                     canvasWidth : VisWidths, canvasHeight : VisHeights]
    /\ visibleChunks = NotCalled

\* setOffset(offsetX, offsetY)
VisSetOffset(offsetX, offsetY) ==
    /\ visStore' = [visStore EXCEPT !.viewport.offsetX = offsetX,
                                    !.viewport.offsetY = offsetY]
    /\ visibleChunks' = NotCalled
    /\ UNCHANGED nonVisVars

\* setScale(scale)
VisSetScale(scale) ==
    /\ visStore' = [visStore EXCEPT !.viewport.scale = Max(MinScale, Min(MaxScale, scale))]
    /\ visibleChunks' = NotCalled
    /\ UNCHANGED nonVisVars

\* getVisibleChunks()
VisGetVisibleChunks ==
    /\ visibleChunks' = GetVisibleChunks(visStore.viewport, visStore.canvasWidth,
                                         visStore.canvasHeight, ChunkSize,
                                         InnerWidth, InnerHeight)
    /\ UNCHANGED visStore
    /\ UNCHANGED nonVisVars

VisNext ==
    \/ \E ox \in VisOffsetsX, oy \in VisOffsetsY : VisSetOffset(ox, oy)
    \/ \E scale \in VisScales : VisSetScale(scale)
    \/ VisGetVisibleChunks

VisSpec == VisInit /\ [][VisNext]_vars

(***************************************************************************)
(* Part III.  Properties of getVisibleChunks                               *)
(***************************************************************************)

\* Cell (x, y) of the grid is drawn inside the window: its square of `scale`
\* pixels at (offsetX + x * scale, offsetY + y * scale) meets the window.
CellVisible(st, x, y) ==
    LET vp == st.viewport IN
    /\ vp.offsetX + x * vp.scale < InnerWidth
    /\ vp.offsetX + (x + 1) * vp.scale > 0
    /\ vp.offsetY + y * vp.scale < InnerHeight
    /\ vp.offsetY + (y + 1) * vp.scale > 0

\* The visible cells of the grid
VisibleCells(st) ==
    {c \in (0..(st.canvasWidth - 1)) \X (0..(st.canvasHeight - 1)) :
        CellVisible(st, c[1], c[2])}

\* Cell c lies in the chunk of origin k
InChunk(c, k) ==
    /\ k[1] <= c[1] /\ c[1] < k[1] + ChunkSize
    /\ k[2] <= c[2] /\ c[2] < k[2] + ChunkSize

\* The scenario of C12: a 100 x 100 grid in chunks of 20, visible cells
\* (5,5)-(25,25): scale 10, offset (-50, -50), a window of 210 x 210 pixels
C12_Scenario ==
    LET vp == [scale |-> InitialScale, offsetX |-> -(5 * InitialScale),
               offsetY |-> -(5 * InitialScale)]
    IN GetVisibleChunks(vp, DEFAULT_CANVAS_WIDTH, DEFAULT_CANVAS_HEIGHT,
                        DEFAULT_CHUNK_SIZE, 21 * InitialScale, 21 * InitialScale)
       = <<<<0, 0>>, <<DEFAULT_CHUNK_SIZE, 0>>, <<0, DEFAULT_CHUNK_SIZE>>,
           <<DEFAULT_CHUNK_SIZE, DEFAULT_CHUNK_SIZE>>>>

\* C12: what getVisibleChunks returns is complete (every visible cell of the
\* grid lies in exactly one returned chunk) and minimal (every returned chunk
\* holds a visible cell of the grid), for every viewport and grid size; and the
\* scenario yields the four origins.
C12_CompleteAndMinimal ==
    /\ C12_Scenario
    /\ visibleChunks # NotCalled =>
        /\ \A c \in VisibleCells(visStore) :
              Cardinality({i \in DOMAIN visibleChunks : InChunk(c, visibleChunks[i])}) = 1
        /\ \A i \in DOMAIN visibleChunks :
              \E c \in VisibleCells(visStore) : InChunk(c, visibleChunks[i])

(***************************************************************************)
(* Part II.  Properties of the Grid Cache: merges, events and the refresh  *)
(***************************************************************************)

\* The store operation op wrote cell c: a merge of c's chunk, or an
\* updatePixel for c
Covers(op, c) ==
    \/ op.op \in {"passFetch", "tickFetch"} /\ op.key = KeyOf(c[1], c[2])
    \/ op.op = "updatePixel" /\ op.cell = c

\* C13: the colour of a cell of a present chunk is the one written by the
\* operation applied last to the cell: an updatePixel(x, y, c) on a present
\* chunk makes getPixel(x, y) return c, and only a later merge of the cell's
\* chunk or a later updatePixel for the cell changes what getPixel returns.
C13_LastWriterWins ==
    [][/\ (lastOp'.op = "updatePixel" /\ lastOp'.key \in DOMAIN chunks)
          => GetPixelColor(chunks', lastOp'.cell[1], lastOp'.cell[2]) = lastOp'.out
       /\ \A c \in EventCells :
            ~Covers(lastOp', c)
            => GetPixelColor(chunks', c[1], c[2]) = GetPixelColor(chunks, c[1], c[2])]_vars

\* C13 (witness): an updatePixel has just been applied to a chunk merged with
\* the remote's colour: the cell has the event's colour, its neighbour the
\* merge's.
C13_Witness ==
    /\ lastOp.op = "updatePixel"
    /\ lastOp.key \in DOMAIN chunks
    /\ GetPixelColor(chunks, lastOp.cell[1], lastOp.cell[2]) = lastOp.out
    /\ GetPixelColor(chunks, lastOp.cell[1] + 1, lastOp.cell[2]) \in FetchColors
    /\ lastOp.out \notin FetchColors

\* The chunk keys of the grid
GridKeys == {KeyOf(x, y) : x \in 0..(canvasWidth - 1), y \in 0..(canvasHeight - 1)}

\* C14: setChunk applied twice in a row with the same data leaves chunks and
\* loadingChunks as one application does, from every cache state.
C14_SetChunkIdempotent ==
    \A k \in GridKeys, out \in FetchOutcomes :
        LET data == FetchedChunk(k, OutcomeColor(out))
        IN SetChunk(SetChunk(Store, k, data), k, data) = SetChunk(Store, k, data)

\* C14 (witness): a cache state in which a key is present with other data
\* than the merged data and is marked loading, so that the first setChunk
\* changes both maps.
C14_Witness ==
    \E k \in GridKeys, out \in FetchOutcomes :
        LET data == FetchedChunk(k, OutcomeColor(out)) IN
        /\ k \in DOMAIN chunks
        /\ chunks[k] # data
        /\ k \in DOMAIN loadingChunks /\ loadingChunks[k]
        /\ SetChunk(Store, k, data) # Store

\* The keys an interval callback has still to fetch, the awaited one included
TickPending(t) ==
    IF ticks[t].active
    THEN {ticks[t].list[i] : i \in ticks[t].idx..Len(ticks[t].list)}
    ELSE {}

\* A step of interval callback t: it starts with every visible chunk to
\* fetch; a fetch that resolves is merged with setChunk and only its key
\* leaves the keys to fetch.
TickStep(t) ==
    /\ (~ticks[t].active /\ ticks'[t].active)
       => TickPending(t)' = Range(VisibleNow)
    /\ (ticks[t].active /\ ticks'[t] # ticks[t])
       => LET k == ticks[t].list[ticks[t].idx] IN
          /\ lastOp' = Op("tickFetch", k, <<-1, -1>>, lastOp'.out)
          /\ k \in DOMAIN chunks'
          /\ chunks'[k] = FetchedChunk(k, OutcomeColor(lastOp'.out))
          /\ loadingChunks'[k] = FALSE
          /\ TickPending(t)' = TickPending(t) \ {k}

C35_FailedRefreshKeepsKnownColor ==
    [][(/\ lastOp'.op = "tickFetch"
        /\ lastOp'.out = "failed"
        /\ lastOp'.key \in DOMAIN chunks)
       => \A x \in 0..(canvasWidth - 1), y \in 0..(canvasHeight - 1) :
             (/\ KeyOf(x, y) = lastOp'.key
              /\ GetPixelColor(chunks, x, y) \in FetchColors \cup EventColors)
             => GetPixelColor(chunks', x, y) = GetPixelColor(chunks, x, y)]_vars

\* C37: at most one interval callback of setupPeriodicUpdates is running (has
\* a fetch outstanding) at any time.
C37_OneRefreshPassAtATime ==
    Cardinality({t \in TickSlots : ticks[t].active}) <= 1

(***************************************************************************)
(* Part IV.  The Subscription Manager                                      *)
(*                                                                         *)
(* One EthersCanvasService and the subscription its owner, the             *)
(* CanvasServiceProvider, makes with onPixelPainted.  Contract objects are *)
(* numbered: 1 is the one the constructor makes, without a signer, so its  *)
(* runner is a provider; updateSigner makes the next one, whose runner is  *)
(* the signer.  contract.on and contract.off may throw where the code      *)
(* catches it.                                                             *)
(***************************************************************************)

\* Bound: the number of updateSigner calls
MaxSigners == 2

\* const MAX_RECONNECT_ATTEMPTS = 5
MAX_RECONNECT_ATTEMPTS == 5
\* const RECONNECT_DELAY = 2000
RECONNECT_DELAY == 2000

Contracts == 1..(MaxSigners + 1)

\* Math.pow(2, n)
RECURSIVE Pow2(_)
Pow2(n) == IF n <= 0 THEN 1 ELSE 2 * Pow2(n - 1)

\* A backoff that grows by RECONNECT_DELAY with every attempt
BackoffDelayLinear(attempts) == RECONNECT_DELAY * attempts

\* const backoffDelay = RECONNECT_DELAY * Math.pow(2, reconnectAttempts - 1)
BackoffDelay(attempts) == RECONNECT_DELAY * Pow2(attempts - 1)

\* The runner of contract object c is a provider (it has on and off): the
\* contract was made without a signer
RunnerIsProvider(c) == c = 1

\* this.contract.on(eventFilter, listener) and this.contract.off(eventFilter,
\* listener) on the listener table ls
On(ls, c) == [ls EXCEPT ![c] = @ + 1]
Off(ls, c) == [ls EXCEPT ![c] = IF @ > 0 THEN @ - 1 ELSE 0]

\* attemptReconnect(): the next timer, or giving up; `fired` is 1 when the
\* call is made by the callback of a timer, which is pending no longer
AttemptReconnect(fired) ==
    IF reconnectAttempts < MAX_RECONNECT_ATTEMPTS
    THEN /\ reconnectAttempts' = reconnectAttempts + 1
         /\ reconnectTimer' = BackoffDelay(reconnectAttempts + 1)
         /\ timersPending' = timersPending - fired + 1
    ELSE /\ reconnectTimer' = 0
         /\ timersPending' = timersPending - fired
         /\ UNCHANGED reconnectAttempts

\* new EthersCanvasService(chainId)
SubInit ==
    /\ SchedIdle
    /\ CacheIdle
    /\ VisIdle
    /\ ProviderIdle
    /\ WriteIdle
    /\ SectionIdle
    /\ FeedIdle
    /\ contract = 1
    /\ listeners = [c \in Contracts |-> 0]
    /\ errorHandler = FALSE
    /\ isConnected = FALSE
    /\ reconnectAttempts = 0
    /\ reconnectTimer = 0
    /\ subState = "none"
    /\ unsubscribeKind = "none"
    /\ provError = "none"
    /\ failedAttempts = 0
    /\ lastCall = 0
    /\ timersPending = 0
    /\ lastError = "none"

\* service.onPixelPainted(callback): the error handler goes on the runner if
\* that is a provider, the listener on the contract; when contract.on throws
\* the cleanup returned is empty
OnPixelPainted(onThrows) ==
    /\ subState = "none"
    /\ subState' = "subscribed"
    /\ isConnected' = TRUE
    /\ errorHandler' = RunnerIsProvider(contract)
    /\ IF onThrows
       THEN /\ unsubscribeKind' = "noop"
            /\ UNCHANGED listeners
       ELSE /\ unsubscribeKind' = "real"
            /\ listeners' = On(listeners, contract)
    /\ lastCall' = 0
    /\ lastError' = "none"
    /\ UNCHANGED timersPending
    /\ UNCHANGED <<contract, reconnectAttempts, reconnectTimer, provError, failedAttempts>>
    /\ UNCHANGED nonSubVars

\* A handleConnectionError that does not look at isConnected
TransportErrorUnguarded ==
    /\ errorHandler
    /\ isConnected' = FALSE
    /\ AttemptReconnect(0)
    /\ lastError' = "scheduled"
    /\ lastCall' = 0
    /\ UNCHANGED <<contract, listeners, errorHandler, subState, unsubscribeKind,
                   provError, failedAttempts>>
    /\ UNCHANGED nonSubVars

\* The provider emits "error": handleConnectionError(error)
TransportError ==
    /\ errorHandler
    /\ IF isConnected
       THEN /\ isConnected' = FALSE
            /\ AttemptReconnect(0)
            /\ lastError' = "scheduled"
       ELSE /\ lastError' = "ignored"
            /\ UNCHANGED <<isConnected, reconnectAttempts, reconnectTimer, timersPending>>
    /\ lastCall' = 0
    /\ UNCHANGED <<contract, listeners, errorHandler, subState, unsubscribeKind,
                   provError, failedAttempts>>
    /\ UNCHANGED nonSubVars

\* The reconnect timer fires: off and on of the listener on this.contract;
\* when either throws, attemptReconnect() again
ReconnectTimerFires(outcome) ==
    /\ reconnectTimer > 0
    /\ IF outcome = "ok"
       THEN /\ listeners' = On(Off(listeners, contract), contract)
            /\ isConnected' = TRUE
            /\ reconnectAttempts' = 0
            /\ reconnectTimer' = 0
            /\ timersPending' = timersPending - 1
            /\ failedAttempts' = 0
       ELSE /\ listeners' = IF outcome = "on_throws" THEN Off(listeners, contract)
                            ELSE listeners
            /\ AttemptReconnect(1)
            /\ failedAttempts' = failedAttempts + 1
            /\ UNCHANGED isConnected
    /\ lastError' = "none"
    /\ lastCall' = 0
    /\ UNCHANGED <<contract, errorHandler, subState, unsubscribeKind, provError>>
    /\ UNCHANGED nonSubVars

\* The owner's wallet effect: updateSigner(signer) makes a new contract
\* object; when getSigner throws, the owner sets its error
UpdateSigner(ok) ==
    /\ subState # "none"
    /\ IF ok
       THEN /\ contract < MaxSigners + 1
            /\ contract' = contract + 1
            /\ UNCHANGED provError
       ELSE /\ provError' = "wallet"
            /\ UNCHANGED contract
    /\ lastCall' = 0
    /\ lastError' = "none"
    /\ UNCHANGED timersPending
    /\ UNCHANGED <<listeners, errorHandler, isConnected, reconnectAttempts,
                   reconnectTimer, subState, unsubscribeKind, failedAttempts>>
    /\ UNCHANGED nonSubVars

\* The function onPixelPainted returned is called: off of the listener on
\* this.contract, then off of the error handler if the runner is a provider.
\* (contract.off is taken to do its work here: the catch only logs.)
Unsubscribe ==
    /\ subState = "subscribed"
    /\ subState' = "unsubscribed"
    /\ IF unsubscribeKind = "noop"
       THEN UNCHANGED <<listeners, errorHandler>>
       ELSE /\ listeners' = Off(listeners, contract)
            /\ errorHandler' = IF RunnerIsProvider(contract) THEN FALSE ELSE errorHandler
    /\ lastCall' = 0
    /\ lastError' = "none"
    /\ UNCHANGED timersPending
    /\ UNCHANGED <<contract, isConnected, reconnectAttempts, reconnectTimer,
                   unsubscribeKind, provError, failedAttempts>>
    /\ UNCHANGED nonSubVars

\* Contract object c emits PixelPainted: every registration of the listener
\* invokes the callback
PixelPainted(c) ==
    /\ listeners[c] > 0
    /\ lastCall' = listeners[c]
    /\ lastError' = "none"
    /\ UNCHANGED timersPending
    /\ UNCHANGED <<contract, listeners, errorHandler, isConnected, reconnectAttempts,
                   reconnectTimer, subState, unsubscribeKind, provError, failedAttempts>>
    /\ UNCHANGED nonSubVars

SubNext ==
    \/ \E onThrows \in BOOLEAN : OnPixelPainted(onThrows)
    \/ TransportError
    \/ \E outcome \in {"ok", "off_throws", "on_throws"} : ReconnectTimerFires(outcome)
    \/ \E ok \in BOOLEAN : UpdateSigner(ok)
    \/ Unsubscribe
    \/ \E c \in Contracts : PixelPainted(c)

SubSpec == SubInit /\ [][SubNext]_vars

\* A pending reconnect timer fires
FairSubSpec ==
    /\ SubSpec
    /\ WF_vars(\E outcome \in {"ok", "off_throws", "on_throws"} : ReconnectTimerFires(outcome))

\* The states of the subscription
Connected == subState # "none" /\ isConnected
Reconnecting == subState # "none" /\ ~isConnected /\ reconnectTimer > 0
Abandoned == subState # "none" /\ ~isConnected /\ reconnectTimer = 0

(***************************************************************************)
(* Part IV.  Properties of the Subscription Manager                        *)
(***************************************************************************)

\* C16: once the unsubscribe function has been called, no listener of the
\* subscription is attached to a contract object, no reconnect timer of it is
\* pending, and the callback is not invoked.
C16_UnsubscribeTearsDown ==
    subState = "unsubscribed" =>
        /\ \A c \in Contracts : listeners[c] = 0
        /\ reconnectTimer = 0
        /\ lastCall = 0

\* The delays of the first, second, ... reconnect attempt in a row, in ms
ExpectedDelays == <<2000, 4000, 8000, 16000, 32000>>

\* C17: the reconnect attempt that follows k - 1 failed ones in a row is
\* scheduled with delay RECONNECT_DELAY x 2^(k-1); a successful reconnect
\* returns to Connected with reconnectAttempts = 0; after
\* MAX_RECONNECT_ATTEMPTS failed attempts in a row no timer is scheduled any
\* more.
C17_ExponentialBackoffCapped ==
    /\ [](reconnectTimer > 0 =>
            /\ failedAttempts < MAX_RECONNECT_ATTEMPTS
            /\ reconnectTimer = ExpectedDelays[failedAttempts + 1]
            /\ reconnectAttempts = failedAttempts + 1)
    /\ [][(reconnectTimer > 0 /\ reconnectTimer' = 0 /\ failedAttempts' = 0)
          => (isConnected' /\ reconnectAttempts' = 0)]_vars
    /\ [][failedAttempts = MAX_RECONNECT_ATTEMPTS
          => (reconnectTimer' = 0 /\ failedAttempts' = MAX_RECONNECT_ATTEMPTS)]_vars

\* C17 (witness): the fifth attempt in a row is pending with 32000 ms, after
\* four failed ones.
C17_Witness ==
    /\ Reconnecting
    /\ failedAttempts = MAX_RECONNECT_ATTEMPTS - 1
    /\ reconnectTimer = ExpectedDelays[MAX_RECONNECT_ATTEMPTS]

\* C18: when the reconnect attempts are used up, the failure is reported to
\* the owner: Abandoned is followed by a state in which the owner's error
\* state is set or the owner's callback has been invoked.
C18_AbandonmentReported ==
    Abandoned ~> (provError # "none" \/ lastCall > 0)

\* C19: the listener of the subscription is registered on at most one
\* contract object at a time.
C19_OneTransport ==
    Cardinality({c \in Contracts : listeners[c] > 0}) <= 1

\* C38: at most one reconnect timer of the subscription is pending, whatever
\* errors the provider emits: while a reconnect is scheduled, after the
\* reconnects were given up, and after the unsubscribe function was called.
C38_OneReconnectTimer == timersPending <= 1

\* C38 witness: handleConnectionError has just been called while a reconnect
\* was scheduled, after the unsubscribe function was called, and one timer is
\* pending.
C38_Witness ==
    /\ lastError = "ignored"
    /\ subState = "unsubscribed"
    /\ reconnectAttempts > 1
    /\ timersPending = 1

(***************************************************************************)
(* Part V.  The initialization effect of CanvasServiceProvider             *)
(*                                                                         *)
(* The effect with dependency retryCount and the async function            *)
(* initializeCanvasService it calls.  The function given back by           *)
(* initializeCanvasService (the unsubscribe) resolves a promise nobody     *)
(* awaits; the effect's own cleanup sets isMounted to false and clears the *)
(* retry timer.  That cleanup runs, before the timer can fire, in the      *)
(* commit that follows setRetryCount: the retry is made by the next run of *)
(* the effect.                                                             *)
(***************************************************************************)

\* Bound: the number of runs of the effect
MaxRuns == 4

\* const maxRetries = 3
maxRetries == 3

\* DEFAULT_WIDTH, DEFAULT_HEIGHT of EthersCanvasService and MockCanvasService
DEFAULT_WIDTH == 100
DEFAULT_HEIGHT == 100

\* What getDimensions falls back to, what MockCanvasService.getDimensions
\* answers, and what the contract answers WIDTH and HEIGHT with
DefaultDims == <<DEFAULT_WIDTH, DEFAULT_HEIGHT>>
MockDims == <<DEFAULT_WIDTH, DEFAULT_HEIGHT>>
RemoteDims == <<2 * DEFAULT_WIDTH, DEFAULT_HEIGHT>>

\* EthersCanvasService.getDimensions(): the contract's answer, or the defaults
\* when a read failed (safeContractCall catches the error)
GetDimensions(readOk) == IF readOk THEN RemoteDims ELSE DefaultDims

\* The effect's cleanup on run record run: isMounted = false,
\* clearTimeout(retryTimeout)
Cleanup(run) ==
    [run EXCEPT !.isMounted = FALSE, !.pc = IF @ = "timer" THEN "done" ELSE @]

\* The record of a run started with retryCount r on path p at position pc
Run(r, p, pc) == [r |-> r, isMounted |-> TRUE, path |-> p, pc |-> pc]

\* The provider mounted, its effects not yet run.
ProviderInit ==
    /\ SchedIdle
    /\ CacheIdle
    /\ VisIdle
    /\ SubIdle
    /\ WriteIdle
    /\ SectionIdle
    /\ FeedIdle
    /\ mounted = TRUE
    /\ retryCount = 0
    /\ canvasService = "none"
    /\ loading = TRUE
    /\ error = "none"
    /\ isUsingFallback = FALSE
    /\ effectDirty = TRUE
    /\ runs = <<>>
    /\ liveSubs = {}
    /\ lastUpdates = 0
    /\ installedBy = 0
    /\ homeDirty = FALSE
    /\ storeDims = <<DEFAULT_CANVAS_WIDTH, DEFAULT_CANVAS_HEIGHT>>
    /\ dimsRead = FALSE
    /\ mockSubs = {}
    /\ mockWrite = 0
    /\ consecFailures = 0
    /\ dimFailures = 0
    /\ lastStep = "none"

\* setCanvasService(mockService), setIsUsingFallback(true), setLoading(false),
\* setError(msg) for the mock made by run i; a mock installed without the
\* degraded-mode flag
InstallMockUnflagged(i, msg) ==
    /\ canvasService' = "mock"
    /\ installedBy' = i
    /\ homeDirty' = TRUE
    /\ loading' = FALSE
    /\ error' = msg
    /\ UNCHANGED isUsingFallback

InstallMock(i, msg) ==
    /\ canvasService' = "mock"
    /\ installedBy' = i
    /\ homeDirty' = TRUE
    /\ isUsingFallback' = TRUE
    /\ loading' = FALSE
    /\ error' = msg

\* if (retryCount >= maxRetries), and the same one attempt earlier
ThresholdReachedEarly(rc) == rc >= maxRetries - 1

ThresholdReached(rc) == rc >= maxRetries

\* The threshold branch: the mock is installed, nothing is subscribed to it
\* and retryCount is left alone
ThresholdBranch(cleaned) ==
    /\ runs' = Append(cleaned, Run(retryCount, "threshold", "done"))
    /\ InstallMock(Len(runs) + 1, "mock")
    /\ retryCount' = retryCount
    /\ effectDirty' = FALSE
    /\ lastStep' = "threshold"

\* new EthersCanvasService(chainId) throws (getContract, getProvider): the
\* outer catch, up to await mockService.getDimensions(); an outer catch that
\* has the effect run again; and one that counts the error as a failed attempt
FatalBranchRetrying(cleaned) ==
    /\ runs' = Append(cleaned, Run(retryCount, "fatal", "fatal"))
    /\ retryCount' = retryCount
    /\ effectDirty' = TRUE
    /\ lastStep' = "fatal"
    /\ UNCHANGED <<canvasService, installedBy, homeDirty, isUsingFallback, loading, error>>

FatalBranchCounting(cleaned) ==
    /\ runs' = Append(cleaned, Run(retryCount, "fatal", "fatal"))
    /\ retryCount' = retryCount + 1
    /\ effectDirty' = TRUE
    /\ lastStep' = "fatal"
    /\ UNCHANGED <<canvasService, installedBy, homeDirty, isUsingFallback, loading, error>>

FatalBranch(cleaned) ==
    /\ runs' = Append(cleaned, Run(retryCount, "fatal", "fatal"))
    /\ retryCount' = retryCount
    /\ effectDirty' = FALSE
    /\ lastStep' = "fatal"
    /\ UNCHANGED <<canvasService, installedBy, homeDirty, isUsingFallback, loading, error>>

\* The effect runs: the cleanup of the run before, then
\* initializeCanvasService() up to its first await.
EffectRuns(ctorThrows) ==
    /\ mounted
    /\ effectDirty
    /\ Len(runs) < MaxRuns
    /\ LET cleaned == [i \in DOMAIN runs |-> Cleanup(runs[i])] IN
       IF ThresholdReached(retryCount)
       THEN ThresholdBranch(cleaned)
       ELSE IF ctorThrows
       THEN FatalBranch(cleaned)
       ELSE /\ runs' = Append(cleaned, Run(retryCount, "live", "awaiting"))
            /\ effectDirty' = FALSE
            /\ lastStep' = "effect"
            /\ UNCHANGED <<retryCount, canvasService, installedBy, homeDirty,
                           isUsingFallback, loading, error>>
    /\ lastUpdates' = 0
    /\ UNCHANGED <<mounted, liveSubs, storeDims, dimsRead, mockSubs, mockWrite,
                   consecFailures, dimFailures>>
    /\ UNCHANGED nonInitVars

\* initializeCanvasService of run i goes on after its awaits (the delay,
\* getDimensions, whose contract reads succeeded or not): nothing when the run
\* was cleaned up; else setDimensions and the rest of the try block, which
\* subscribes, or the catch when the try block throws.  The catch always finds
\* retryCount < maxRetries: the threshold branch returned before the try.
InitResumes(i, readOk, throws) ==
    /\ runs[i].pc = "awaiting"
    /\ IF ~runs[i].isMounted
       THEN /\ runs' = [runs EXCEPT ![i].pc = "done"]
            /\ lastStep' = "stale"
            /\ UNCHANGED <<retryCount, canvasService, loading, error, isUsingFallback,
                           effectDirty, liveSubs, installedBy, homeDirty, storeDims,
                           dimsRead, consecFailures, dimFailures>>
       ELSE /\ storeDims' = GetDimensions(readOk)
            /\ dimsRead' = (dimsRead \/ readOk)
            /\ dimFailures' = IF readOk THEN 0 ELSE dimFailures + 1
            /\ IF ~throws
               THEN /\ liveSubs' = liveSubs \cup {i}
                    /\ canvasService' = "ethers"
                    /\ installedBy' = i
                    /\ homeDirty' = TRUE
                    /\ loading' = FALSE
                    /\ isUsingFallback' = FALSE
                    /\ retryCount' = 0
                    /\ effectDirty' = (effectDirty \/ retryCount # 0)
                    /\ runs' = [runs EXCEPT ![i].pc = "done"]
                    /\ consecFailures' = 0
                    /\ lastStep' = "success"
                    /\ UNCHANGED error
               ELSE /\ retryCount' = runs[i].r + 1
                    /\ effectDirty' = (effectDirty \/ retryCount # runs[i].r + 1)
                    /\ runs' = [runs EXCEPT ![i].pc = "timer"]
                    /\ error' = "retrying"
                    /\ consecFailures' = consecFailures + 1
                    /\ lastStep' = "failure"
                    /\ UNCHANGED <<canvasService, loading, isUsingFallback, liveSubs,
                                   installedBy, homeDirty>>
    /\ lastUpdates' = 0
    /\ UNCHANGED <<mounted, mockSubs, mockWrite>>
    /\ UNCHANGED nonInitVars

\* The outer catch of run i goes on after await mockService.getDimensions():
\* setDimensions, mockService.onPixelPainted, then the setters, which act while
\* the component that made the run is mounted
FatalResumes(i) ==
    /\ runs[i].pc = "fatal"
    /\ runs' = [runs EXCEPT ![i].pc = "done"]
    /\ storeDims' = MockDims
    /\ mockSubs' = mockSubs \cup {i}
    /\ IF runs[i].isMounted
       THEN InstallMock(i, "offline")
       ELSE UNCHANGED <<canvasService, installedBy, homeDirty, isUsingFallback,
                        loading, error>>
    /\ lastStep' = "fatalMock"
    /\ lastUpdates' = 0
    /\ UNCHANGED <<mounted, retryCount, effectDirty, liveSubs, dimsRead, mockWrite,
                   consecFailures, dimFailures>>
    /\ UNCHANGED nonInitVars

\* Home's effect on canvasService: fetchDimensions awaits
\* canvasService.getDimensions() and calls setDimensions
HomeFetchDimensions(readOk) ==
    /\ mounted
    /\ homeDirty
    /\ canvasService # "none"
    /\ homeDirty' = FALSE
    /\ storeDims' = IF canvasService = "mock" THEN MockDims ELSE GetDimensions(readOk)
    /\ dimsRead' = (dimsRead \/ (canvasService = "ethers" /\ readOk))
    /\ lastStep' = "home"
    /\ lastUpdates' = 0
    /\ UNCHANGED <<mounted, retryCount, canvasService, loading, error, isUsingFallback,
                   effectDirty, runs, liveSubs, installedBy, mockSubs, mockWrite,
                   consecFailures, dimFailures>>
    /\ UNCHANGED nonInitVars

\* The provider is unmounted: the effect's cleanup runs, the component's state
\* is dropped
Unmount ==
    /\ mounted
    /\ mounted' = FALSE
    /\ runs' = [i \in DOMAIN runs |-> Cleanup(runs[i])]
    /\ effectDirty' = FALSE
    /\ homeDirty' = FALSE
    /\ lastStep' = "unmount"
    /\ lastUpdates' = 0
    /\ UNCHANGED <<retryCount, canvasService, loading, error, isUsingFallback, liveSubs,
                   installedBy, storeDims, dimsRead, mockSubs, mockWrite,
                   consecFailures, dimFailures>>
    /\ UNCHANGED nonInitVars

\* The provider is mounted again: useState's initial values, the effect to run
Mount ==
    /\ ~mounted
    /\ Len(runs) < MaxRuns
    /\ mounted' = TRUE
    /\ retryCount' = 0
    /\ canvasService' = "none"
    /\ installedBy' = 0
    /\ loading' = TRUE
    /\ error' = "none"
    /\ isUsingFallback' = FALSE
    /\ effectDirty' = TRUE
    /\ consecFailures' = 0
    /\ dimFailures' = 0
    /\ lastStep' = "mount"
    /\ lastUpdates' = 0
    /\ UNCHANGED <<runs, liveSubs, homeDirty, storeDims, dimsRead, mockSubs, mockWrite>>
    /\ UNCHANGED nonInitVars

\* The contract emits PixelPainted: the callback of every live subscription
\* calls updatePixel and addActivityItem
ChainEvent ==
    /\ liveSubs # {}
    /\ lastUpdates' = Cardinality(liveSubs)
    /\ lastStep' = "chainEvent"
    /\ UNCHANGED <<mounted, retryCount, canvasService, loading, error, isUsingFallback,
                   effectDirty, runs, liveSubs, installedBy, homeDirty, storeDims,
                   dimsRead, mockSubs, mockWrite, consecFailures, dimFailures>>
    /\ UNCHANGED nonInitVars

\* handlePaintButtonClick with the mock installed: MockCanvasService.paintPixel
\* sets its timer and answers success
MockPaint ==
    /\ mounted
    /\ canvasService = "mock"
    /\ mockWrite = 0
    /\ mockWrite' = installedBy
    /\ lastStep' = "mockPaint"
    /\ lastUpdates' = 0
    /\ UNCHANGED <<mounted, retryCount, canvasService, loading, error, isUsingFallback,
                   effectDirty, runs, liveSubs, installedBy, homeDirty, storeDims,
                   dimsRead, mockSubs, consecFailures, dimFailures>>
    /\ UNCHANGED nonInitVars

\* The timer of MockCanvasService.paintPixel fires:
\* this.eventCallbacks.pixelPainted.forEach(callback => callback(event))
MockEmits ==
    /\ mockWrite # 0
    /\ mockWrite' = 0
    /\ lastUpdates' = IF mockWrite \in mockSubs THEN 1 ELSE 0
    /\ lastStep' = "mockEmits"
    /\ UNCHANGED <<mounted, retryCount, canvasService, loading, error, isUsingFallback,
                   effectDirty, runs, liveSubs, installedBy, homeDirty, storeDims,
                   dimsRead, mockSubs, consecFailures, dimFailures>>
    /\ UNCHANGED nonInitVars

ProviderNext ==
    \/ \E ctorThrows \in BOOLEAN : EffectRuns(ctorThrows)
    \/ \E i \in DOMAIN runs, readOk \in BOOLEAN, throws \in BOOLEAN :
          InitResumes(i, readOk, throws)
    \/ \E i \in DOMAIN runs : FatalResumes(i)
    \/ \E readOk \in BOOLEAN : HomeFetchDimensions(readOk)
    \/ ChainEvent
    \/ MockPaint
    \/ MockEmits
    \/ Unmount
    \/ Mount

ProviderSpec == ProviderInit /\ [][ProviderNext]_vars

\* The timer of MockCanvasService.paintPixel fires when due
FairProviderSpec == ProviderSpec /\ WF_vars(MockEmits)

(***************************************************************************)
(* Part V.  Properties of the initialization effect                        *)
(***************************************************************************)

\* C20: a cell-change notification results in exactly one updatePixel and
\* one activity entry, and at no time more than one cell-change subscription
\* is live.
C20_OneLiveSubscription ==
    /\ Cardinality(liveSubs) <= 1
    /\ lastUpdates <= 1

\* No run of initializeCanvasService is waiting to go on for the mounted
\* component and the effect is not due
Settled ==
    /\ mounted
    /\ ~effectDirty
    /\ \A i \in DOMAIN runs : runs[i].isMounted => runs[i].pc = "done"

\* C21: with failures handled by the retry catch, the threshold branch installs
\* the mock when exactly maxRetries attempts in a row have failed; once that
\* many have failed the mock is installed as soon as the effect has run and no
\* live attempt is under way; a successful attempt leaves retryCount at 0.
C21_DegradesAtThreshold ==
    /\ (canvasService = "mock" /\ runs[installedBy].path = "threshold")
          => consecFailures = maxRetries
    /\ (mounted /\ ~effectDirty /\ consecFailures = maxRetries) => canvasService = "mock"
    /\ \A i \in DOMAIN runs :
          (runs[i].isMounted /\ runs[i].pc = "awaiting") => consecFailures < maxRetries
    /\ lastStep = "success" => (retryCount = 0 /\ consecFailures = 0)

\* C21 witness: the mock installed by the threshold branch
C21_Witness ==
    /\ mounted
    /\ canvasService = "mock"
    /\ installedBy > 0
    /\ runs[installedBy].path = "threshold"
    /\ consecFailures = maxRetries

\* C22: when the dimension read has failed in maxRetries attempts in a row and
\* initialization has settled, the mock is the installed source and
\* isUsingFallback is true.
C22_DimensionFailuresDegrade ==
    (Settled /\ dimFailures >= maxRetries) => (canvasService = "mock" /\ isUsingFallback)

\* C23: while the provider stays mounted, once isUsingFallback is true it stays
\* true and the installed source stays the mock.
C23_DegradationOneWay ==
    [][(mounted /\ mounted' /\ isUsingFallback)
          => (isUsingFallback' /\ canvasService' = "mock")]_vars

\* C23 witness: a step taken in degraded mode
C23_Witness ==
    /\ mounted
    /\ isUsingFallback
    /\ lastStep \in {"mockEmits", "home", "chainEvent"}

\* C24: when a source is installed, isUsingFallback is true exactly when the
\* installed source is the mock.
C24_FlagMatchesSource ==
    canvasService # "none" => (isUsingFallback <=> canvasService = "mock")

\* C24 witness: the mock installed by the outer catch, after a live source was
\* installed by an earlier mount
C24_Witness ==
    /\ mounted
    /\ canvasService = "mock"
    /\ isUsingFallback
    /\ liveSubs # {}

\* C25: an error thrown by the constructor of the live source leads to the
\* mock being installed by the same run: retryCount is as the run found it, the
\* effect is not made to run again, no retry timer is set, and the error
\* message set with the mock stays.
C25_FatalErrorFallsBack ==
    \A i \in DOMAIN runs :
        (runs[i].path = "fatal" /\ runs[i].isMounted) =>
            /\ retryCount = runs[i].r
            /\ ~effectDirty
            /\ runs[i].pc \in {"fatal", "done"}
            /\ runs[i].pc = "done" =>
                  /\ canvasService = "mock"
                  /\ installedBy = i
                  /\ isUsingFallback
                  /\ error = "offline"

\* C25 witness: the outer catch has installed the mock after a failed attempt
C25_Witness ==
    \E i \in DOMAIN runs :
        /\ runs[i].path = "fatal"
        /\ runs[i].isMounted
        /\ runs[i].pc = "done"
        /\ runs[i].r > 0

\* C26: a write acknowledged by the installed mock's paintPixel is followed by
\* its cell-change event reaching updatePixel.
C26_MockWriteDelivered ==
    (mockWrite # 0) ~> (lastStep = "mockEmits" /\ lastUpdates >= 1)

\* C27: after setDimensions was called with what the contract answered, no
\* step changes canvasWidth or canvasHeight.
C27_DimensionsFixed ==
    [][dimsRead => storeDims' = storeDims]_vars

\* C34: while the retry timer set after a failed attempt is pending and the
\* provider stays mounted, no step starts another attempt, and no step ends
\* the timer without its callback having run.
C34_RetryWaitsForBackoffTimer ==
    [][\A i \in DOMAIN runs :
          runs[i].pc = "timer" /\ mounted' =>
              /\ Len(runs') = Len(runs)
              /\ runs'[i].pc = "timer"]_vars

(***************************************************************************)
(* Part VI.  The write path                                                *)
(*                                                                         *)
(* handlePaintButtonClick of the Canvas, EthersCanvasService.paintPixel    *)
(* and paintPixel of lib/web3utils, for a provider whose initialization    *)
(* has settled with the live source or with the mock.  The transaction is  *)
(* sent through the signer's contract: contract.runner is the signer, so   *)
(* the branch for a contract without runner is not taken.  The contract's  *)
(* PixelPainted events reach the provider's subscription as in Part V.     *)
(***************************************************************************)

\* Bound: the number of clicks on the paint button
MaxClicks == 3

\* The TransactionResult values: no result, a confirmed write, a write whose
\* wait ended in the catch of waitError, a failed write
NoResult == [success |-> FALSE, transactionHash |-> "none", error |-> "none"]
ConfirmedResult == [success |-> TRUE, transactionHash |-> "tx.hash", error |-> "none"]
UnconfirmedResult ==
    [success |-> TRUE, transactionHash |-> "tx.hash",
     error |-> "Transaction sent but confirmation timed out. Check the transaction in block explorer."]
FailedResult(reason) == [success |-> FALSE, transactionHash |-> "none", error |-> reason]

\* How the race of tx.wait(1) and the 20 s timer ends: the receipt, the timer's
\* rejection, or a rejection of tx.wait (the transaction reverted)
WaitOutcomes == {"confirmed", "timeout", "reverted"}

\* What the try / catch (waitError) around the race returns; and a catch that
\* answers as for a confirmed write
WaitResultUnmarked(outcome) == ConfirmedResult

WaitResult(outcome) ==
    IF outcome = "confirmed" THEN ConfirmedResult ELSE UnconfirmedResult

\* The errors contract.paintPixel(x, y, color, {value}) rejects with
SendErrors ==
    {[code |-> "INSUFFICIENT_FUNDS", message |-> "insufficient funds for intrinsic transaction cost"],
     [code |-> "ACTION_REJECTED", message |-> "user rejected action"],
     [code |-> "NETWORK_ERROR", message |-> "could not detect network"],
     [code |-> "UNKNOWN_ERROR", message |-> ""]}

\* The outer catch of paintPixel; and one that does not look at error.code
ClassifyErrorUnknown(err) == FailedResult("Unknown error during transaction")

ClassifyError(err) ==
    IF err.code = "INSUFFICIENT_FUNDS"
    THEN FailedResult("Not enough ETH to cover the fee and gas")
    ELSE IF err.code = "ACTION_REJECTED"
    THEN FailedResult("Transaction rejected by user")
    ELSE FailedResult(IF err.message # "" THEN err.message
                      ELSE "Unknown error during transaction")

\* lastWrite of a step outside the write path, and of one inside
NoWrite == [op |-> "none", what |-> "none"]
WriteStep(op, what) == [op |-> op, what |-> what]

\* The provider's state when initialization has settled with source src and
\* Home's effect has run: the first run installed the live source, or its
\* outer catch installed the mock
SettledWith(src) ==
    /\ mounted = TRUE
    /\ retryCount = 0
    /\ canvasService = src
    /\ loading = FALSE
    /\ error = IF src = "mock" THEN "offline" ELSE "none"
    /\ isUsingFallback = (src = "mock")
    /\ effectDirty = FALSE
    /\ runs = <<[Run(0, IF src = "mock" THEN "fatal" ELSE "live", "done")
                 EXCEPT !.isMounted = TRUE]>>
    /\ liveSubs = IF src = "mock" THEN {} ELSE {1}
    /\ lastUpdates = 0
    /\ installedBy = 1
    /\ homeDirty = FALSE
    /\ storeDims = IF src = "mock" THEN MockDims ELSE RemoteDims
    /\ dimsRead = (src # "mock")
    /\ mockSubs = IF src = "mock" THEN {1} ELSE {}
    /\ mockWrite = 0
    /\ consecFailures = 0
    /\ dimFailures = 0
    /\ lastStep = "home"

WriteInit ==
    /\ SchedIdle
    /\ CacheIdle
    /\ VisIdle
    /\ SubIdle
    /\ SectionIdle
    /\ FeedIdle
    /\ \E src \in {"ethers", "mock"} : SettledWith(src)
    /\ signer = FALSE
    /\ paintPc = "idle"
    /\ uiIsLoading = FALSE
    /\ sendCalls = 0
    /\ txSent = 0
    /\ result = NoResult
    /\ alert = "none"
    /\ clicks = 0
    /\ lastWrite = NoWrite

\* The provider's effect on walletClient: canvasService.updateSigner(signer)
WalletConnects ==
    /\ canvasService = "ethers"
    /\ ~signer
    /\ signer' = TRUE
    /\ lastWrite' = NoWrite
    /\ UNCHANGED <<paintPc, uiIsLoading, sendCalls, txSent, result, alert, clicks>>
    /\ UNCHANGED nonWriteVars

\* handlePaintButtonClick with the live source installed, up to the first
\* await of EthersCanvasService.paintPixel; without a signer the call returns
\* at once and the handler shows the alert
PaintClick ==
    /\ canvasService = "ethers"
    /\ ~uiIsLoading
    /\ clicks < MaxClicks
    /\ clicks' = clicks + 1
    /\ sendCalls' = 0
    /\ txSent' = 0
    /\ IF ~signer
       THEN /\ result' = FailedResult("Wallet not connected")
            /\ alert' = "Please connect your wallet to paint pixels."
            /\ lastWrite' = WriteStep("noSigner", "none")
            /\ UNCHANGED <<paintPc, uiIsLoading>>
       ELSE /\ paintPc' = "fee"
            /\ uiIsLoading' = TRUE
            /\ lastWrite' = WriteStep("click", "none")
            /\ UNCHANGED <<result, alert>>
    /\ UNCHANGED signer
    /\ UNCHANGED nonWriteVars

\* getCurrentFee() has resolved (it never rejects): paintPixel of web3utils
\* calls contract.paintPixel
FeeReturns ==
    /\ paintPc = "fee"
    /\ paintPc' = "send"
    /\ sendCalls' = sendCalls + 1
    /\ lastWrite' = WriteStep("send", "none")
    /\ UNCHANGED <<signer, uiIsLoading, txSent, result, alert, clicks>>
    /\ UNCHANGED nonWriteVars

\* contract.paintPixel resolves with the transaction: the wait for its
\* confirmation begins
TxSubmitted ==
    /\ paintPc = "send"
    /\ paintPc' = "wait"
    /\ txSent' = txSent + 1
    /\ lastWrite' = WriteStep("submitted", "none")
    /\ UNCHANGED <<signer, uiIsLoading, sendCalls, result, alert, clicks>>
    /\ UNCHANGED nonWriteVars

\* contract.paintPixel rejects with err: the outer catch classifies it, the
\* handler alerts result.error
SendFails(err) ==
    /\ paintPc = "send"
    /\ paintPc' = "idle"
    /\ result' = ClassifyError(err)
    /\ alert' = ClassifyError(err).error
    /\ uiIsLoading' = FALSE
    /\ lastWrite' = WriteStep("sendFails", err.code)
    /\ UNCHANGED <<signer, sendCalls, txSent, clicks>>
    /\ UNCHANGED nonWriteVars

\* The race of tx.wait(1) and the timer ends; the handler logs a result with
\* success and shows nothing
WaitEnds(outcome) ==
    /\ paintPc = "wait"
    /\ paintPc' = "idle"
    /\ result' = WaitResult(outcome)
    /\ alert' = IF WaitResult(outcome).success THEN "none" ELSE WaitResult(outcome).error
    /\ uiIsLoading' = FALSE
    /\ lastWrite' = WriteStep("waitEnds", outcome)
    /\ UNCHANGED <<signer, sendCalls, txSent, clicks>>
    /\ UNCHANGED nonWriteVars

WriteNext ==
    \/ WalletConnects
    \/ PaintClick
    \/ FeeReturns
    \/ TxSubmitted
    \/ \E err \in SendErrors : SendFails(err)
    \/ \E outcome \in WaitOutcomes : WaitEnds(outcome)
    \/ MockPaint
    \/ MockEmits
    \/ ChainEvent

WriteSpec == WriteInit /\ [][WriteNext]_vars

(***************************************************************************)
(* Part VI.  Properties of the write path                                  *)
(***************************************************************************)

\* C28: when the confirmation wait of a submitted write times out, one
\* transaction was sent and no other is, and the result returned has success
\* true, the transaction hash and the timed-out text, which a confirmed
\* write's result does not have.
C28_TimeoutIsUnknownNotResent ==
    /\ sendCalls <= 1
    /\ lastWrite = WriteStep("waitEnds", "timeout") =>
          /\ txSent = 1
          /\ paintPc = "idle"
          /\ result.success
          /\ result.transactionHash = "tx.hash"
          /\ result.error # "none"
          /\ result # WaitResult("confirmed")

\* C28 witness: the wait of the second write timed out
C28_Witness ==
    /\ lastWrite = WriteStep("waitEnds", "timeout")
    /\ clicks = MaxClicks

\* C29: a write that ended with an error (contract.paintPixel rejected, or
\* the confirmation wait ended with an error that is not the timeout) returns
\* a result without success and with a reason.
C29_WriteErrorsSurface ==
    (\/ lastWrite.op = "sendFails"
     \/ lastWrite = WriteStep("waitEnds", "reverted"))
        => (~result.success /\ result.error # "none")

\* C30: a write the user declined returns a result without success whose
\* reason no other rejection of contract.paintPixel is given, and the
\* transaction is not sent again; no step of a paintPixel call changes
\* retryCount, the installed source or isUsingFallback.
C30_DeclinedIsDistinctAndInert ==
    /\ [](lastWrite = WriteStep("sendFails", "ACTION_REJECTED") =>
            /\ ~result.success
            /\ \A err \in SendErrors :
                  err.code # "ACTION_REJECTED" => ClassifyError(err).error # result.error
            /\ paintPc = "idle"
            /\ sendCalls = 1
            /\ txSent = 0)
    /\ [][(writeVars' # writeVars \/ mockWrite' # mockWrite)
            => UNCHANGED <<retryCount, canvasService, isUsingFallback, consecFailures>>]_vars

\* C30 witness: the user declined the second write
C30_Witness ==
    /\ lastWrite = WriteStep("sendFails", "ACTION_REJECTED")
    /\ clicks = MaxClicks


(***************************************************************************)
(* Part VII.  The region reads of getCanvasSection                         *)
(*                                                                         *)
(* One call getCanvasSection(startX, startY, width, height) of the         *)
(* EthersCanvasService: its two loops over the requested rectangle and the *)
(* region it reads from the contract in every round.  A read that throws   *)
(* is caught inside the loop, which goes on.                               *)
(***************************************************************************)

\* Bound: the largest width and height a call is made with.
MaxSection == 21

\* const MAX_CHUNK_SIZE = 10
MAX_CHUNK_SIZE == 10

\* The corners the Canvas asks for: multiples of its chunk size
SectionStarts == {0, DEFAULT_CHUNK_SIZE}
SectionSizes == 1..MaxSection

NoSection == <<>>

\* A width or height of MAX_CHUNK_SIZE whatever is left
SubExtentUnclamped(total, at) == MAX_CHUNK_SIZE

\* Math.min(MAX_CHUNK_SIZE, width - chunkX), Math.min(MAX_CHUNK_SIZE, height - chunkY)
SubExtent(total, at) == Min(MAX_CHUNK_SIZE, total - at)

\* The arguments of this.contract.getCanvasSection in the round at <<chunkX, chunkY>>
RegionAt(req, pos) ==
    [x |-> req.startX + pos[1], y |-> req.startY + pos[2],
     w |-> SubExtent(req.width, pos[1]), h |-> SubExtent(req.height, pos[2])]

\* chunkX += MAX_CHUNK_SIZE, and when the inner loop ends, chunkY +=
\* MAX_CHUNK_SIZE and chunkX = 0
NextPos(req, pos) ==
    IF pos[1] + MAX_CHUNK_SIZE < req.width
    THEN <<pos[1] + MAX_CHUNK_SIZE, pos[2]>>
    ELSE <<0, pos[2] + MAX_CHUNK_SIZE>>

\* The loops of a call are running / have ended (chunkY < height fails)
SectionReading == sectionReq # NoSection /\ sectionPos[2] < sectionReq.height
SectionDone == sectionReq # NoSection /\ sectionPos[2] >= sectionReq.height

\* No call made yet.
SectionInit ==
    /\ SchedIdle
    /\ CacheIdle
    /\ VisIdle
    /\ SubIdle
    /\ ProviderIdle
    /\ WriteIdle
    /\ FeedIdle
    /\ sectionReq = NoSection
    /\ sectionPos = <<0, 0>>
    /\ sectionReads = <<>>
    /\ sectionLast = "none"

\* getCanvasSection(startX, startY, width, height) up to its first await
GetCanvasSection(startX, startY, width, height) ==
    /\ sectionReq = NoSection
    /\ sectionReq' = [startX |-> startX, startY |-> startY,
                      width |-> width, height |-> height]
    /\ sectionPos' = <<0, 0>>
    /\ sectionReads' = <<>>
    /\ sectionLast' = "none"
    /\ UNCHANGED nonSectionVars

\* One round of the inner loop: the region read, which answers or throws,
\* and the step of the loop variables
RegionRead(ok) ==
    /\ SectionReading
    /\ sectionReads' = Append(sectionReads, RegionAt(sectionReq, sectionPos))
    /\ sectionPos' = NextPos(sectionReq, sectionPos)
    /\ sectionLast' = IF ok THEN "answered" ELSE "threw"
    /\ UNCHANGED sectionReq
    /\ UNCHANGED nonSectionVars

SectionNext ==
    \/ \E startX \in SectionStarts, startY \in SectionStarts,
          width \in SectionSizes, height \in SectionSizes :
            GetCanvasSection(startX, startY, width, height)
    \/ \E ok \in BOOLEAN : RegionRead(ok)

SectionSpec == SectionInit /\ [][SectionNext]_vars

\* The cells of a region
RegionCells(r) == {<<x, y>> : x \in r.x..(r.x + r.w - 1), y \in r.y..(r.y + r.h - 1)}

\* The rectangle a call was made for
RequestedCells(req) ==
    RegionCells([x |-> req.startX, y |-> req.startY, w |-> req.width, h |-> req.height])

(***************************************************************************)
(* Part VII.  Properties of the region reads                               *)
(***************************************************************************)

\* C31: every region getCanvasSection reads from the contract is between 1
\* and MAX_CHUNK_SIZE cells wide and high, the regions of one call are
\* pairwise disjoint and lie in the requested rectangle, and when the loops
\* have ended they cover it, for every start and every width and height >= 1.
C31_RegionsPartitionRequest ==
    sectionReq # NoSection =>
        /\ \A i \in DOMAIN sectionReads :
              /\ sectionReads[i].w \in 1..MAX_CHUNK_SIZE
              /\ sectionReads[i].h \in 1..MAX_CHUNK_SIZE
              /\ RegionCells(sectionReads[i]) \subseteq RequestedCells(sectionReq)
        /\ \A i, j \in DOMAIN sectionReads :
              i < j => RegionCells(sectionReads[i]) \cap RegionCells(sectionReads[j]) = {}
        /\ SectionDone =>
              UNION {RegionCells(sectionReads[i]) : i \in DOMAIN sectionReads}
                  = RequestedCells(sectionReq)

\* C31 witness: a call for a rectangle wider than two regions and higher than
\* one has ended, with a region that threw on the way.
C31_Witness ==
    /\ SectionDone
    /\ sectionReq.width > 2 * MAX_CHUNK_SIZE
    /\ sectionReq.height > MAX_CHUNK_SIZE
    /\ sectionReq.height < 2 * MAX_CHUNK_SIZE
    /\ Len(sectionReads) = 6
    /\ sectionLast = "threw"


(***************************************************************************)
(* Part IX.  The actions of useCanvasStore                                 *)
(*                                                                         *)
(* The store of Part II with every action it has, called in any order and  *)
(* with any of the arguments below: what the Canvas, the provider and Home *)
(* do with the store is one of these orders.                               *)
(***************************************************************************)

\* The chunks setChunk and setChunkLoading are called for
StoreKeys == {<<0, 0>>, <<ChunkSize, 0>>}
\* The arguments of setScale: below the least scale, between, above the largest
ScaleArgs == {MinScale - 1, 2 * InitialScale, MaxScale + 1}
\* The arguments of setSelectedPixel: a cell, and null
SelectArgs == {<<0, 0>>, <<NullCoord, NullCoord>>}
\* The arguments of setDimensions: the grid, and a grid of one chunk
DimensionArgs == {<<GridWidth, GridHeight>>, <<ChunkSize, GridHeight>>}

\* The steps that call setChunk, setChunkLoading or updatePixel, and the other
\* actions that say so in lastOp
CacheOps == {"setChunk", "setChunkLoading", "updatePixel"}
OtherOps == {"setScale", "setSelectedPixel", "resetViewport", "setDimensions"}

\* A setDimensions that empties the cache
SetDimensionsClearing(width, height) ==
    /\ canvasWidth' = width
    /\ canvasHeight' = height
    /\ chunks' = <<>>
    /\ rendered' = FALSE
    /\ lastOp' = Op("setDimensions", <<-1, -1>>, <<-1, -1>>, "none")
    /\ UNCHANGED <<loadingChunks, viewport, intervalActive, passes, ticks>>
    /\ UNCHANGED nonCacheVars

\* setDimensions(width, height)
SetDimensions(width, height) ==
    /\ canvasWidth' = width
    /\ canvasHeight' = height
    /\ rendered' = FALSE
    /\ lastOp' = Op("setDimensions", <<-1, -1>>, <<-1, -1>>, "none")
    /\ UNCHANGED <<chunks, loadingChunks, viewport, intervalActive, passes, ticks>>
    /\ UNCHANGED nonCacheVars

\* setChunk(startX, startY, chunk) with a chunk of one colour, k its key
SetChunkCall(k, color) ==
    /\ LET st == SetChunk(Store, k, FetchedChunk(k, color))
       IN /\ chunks' = st.chunks
          /\ loadingChunks' = st.loadingChunks
    /\ rendered' = FALSE
    /\ lastOp' = Op("setChunk", k, <<-1, -1>>, color)
    /\ UNCHANGED <<canvasWidth, canvasHeight, viewport, intervalActive, passes, ticks>>
    /\ UNCHANGED nonCacheVars

\* setChunkLoading(startX, startY, isLoading)
SetChunkLoadingCall(k, isLoading) ==
    /\ LET st == SetChunkLoading(Store, k, isLoading)
       IN /\ chunks' = st.chunks
          /\ loadingChunks' = st.loadingChunks
    /\ rendered' = FALSE
    /\ lastOp' = Op("setChunkLoading", k, <<-1, -1>>, "none")
    /\ UNCHANGED <<canvasWidth, canvasHeight, viewport, intervalActive, passes, ticks>>
    /\ UNCHANGED nonCacheVars

\* setScale(scale)
SetScale(scale) ==
    /\ viewport' = [viewport EXCEPT !.scale = Max(MinScale, Min(MaxScale, scale))]
    /\ rendered' = FALSE
    /\ lastOp' = Op("setScale", <<-1, -1>>, <<-1, -1>>, "none")
    /\ UNCHANGED <<canvasWidth, canvasHeight, chunks, loadingChunks,
                   intervalActive, passes, ticks>>
    /\ UNCHANGED nonCacheVars

\* setSelectedPixel(x, y)
SetSelectedPixel(x, y) ==
    /\ viewport' = [viewport EXCEPT !.selectedX = x, !.selectedY = y]
    /\ rendered' = FALSE
    /\ lastOp' = Op("setSelectedPixel", <<-1, -1>>, <<x, y>>, "none")
    /\ UNCHANGED <<canvasWidth, canvasHeight, chunks, loadingChunks,
                   intervalActive, passes, ticks>>
    /\ UNCHANGED nonCacheVars

\* A resetViewport that also forgets which chunks are loading
ResetViewportClearing ==
    /\ viewport' = [scale |-> InitialScale, offsetX |-> 0, offsetY |-> 0,
                    selectedX |-> viewport.selectedX, selectedY |-> viewport.selectedY]
    /\ loadingChunks' = <<>>
    /\ rendered' = FALSE
    /\ lastOp' = Op("resetViewport", <<-1, -1>>, <<-1, -1>>, "none")
    /\ UNCHANGED <<canvasWidth, canvasHeight, chunks, intervalActive, passes, ticks>>
    /\ UNCHANGED nonCacheVars

\* resetViewport()
ResetViewport ==
    /\ viewport' = [scale |-> InitialScale, offsetX |-> 0, offsetY |-> 0,
                    selectedX |-> viewport.selectedX, selectedY |-> viewport.selectedY]
    /\ rendered' = FALSE
    /\ lastOp' = Op("resetViewport", <<-1, -1>>, <<-1, -1>>, "none")
    /\ UNCHANGED <<canvasWidth, canvasHeight, chunks, loadingChunks,
                   intervalActive, passes, ticks>>
    /\ UNCHANGED nonCacheVars

StoreNext ==
    \/ \E d \in DimensionArgs : SetDimensions(d[1], d[2])
    \/ \E k \in StoreKeys, color \in FetchColors \cup {DEFAULT_COLOR} : SetChunkCall(k, color)
    \/ \E k \in StoreKeys, isLoading \in BOOLEAN : SetChunkLoadingCall(k, isLoading)
    \/ \E cell \in EventCells, color \in EventColors : UpdatePixel(cell[1], cell[2], color)
    \/ \E scale \in ScaleArgs : SetScale(scale)
    \/ \E ox \in OffsetsX, oy \in OffsetsY : SetOffset(ox, oy)
    \/ \E sel \in SelectArgs : SetSelectedPixel(sel[1], sel[2])
    \/ ResetViewport

StoreSpec == CacheInit /\ [][StoreNext]_vars

(***************************************************************************)
(* Part IX.  Properties of the store                                       *)
(***************************************************************************)

\* C32: a ChunkKey present in chunks is present after every step: no action
\* of the store removes a chunk entry.
C32_ChunkKeysStay == [][\A k \in DOMAIN chunks : k \in DOMAIN chunks']_vars

\* C32 witness: setDimensions has made the grid one chunk wide, and the chunk
\* beyond the new width is still present.
C32_Witness ==
    /\ lastOp.op = "setDimensions"
    /\ canvasWidth = ChunkSize
    /\ <<ChunkSize, 0>> \in DOMAIN chunks

\* C33: chunks and loadingChunks are changed only by setChunk, setChunkLoading
\* and updatePixel, and these three leave the viewport as it is; setScale,
\* setOffset, setSelectedPixel, resetViewport and setDimensions leave chunks
\* and loadingChunks as they are.
C33_CacheAndViewportFrames ==
    [][/\ (chunks' # chunks \/ loadingChunks' # loadingChunks) => lastOp'.op \in CacheOps
       /\ lastOp'.op \in CacheOps => viewport' = viewport
       /\ (\/ lastOp'.op \in OtherOps
           \/ viewport' # viewport
           \/ <<canvasWidth, canvasHeight>>' # <<canvasWidth, canvasHeight>>)
              => chunks' = chunks /\ loadingChunks' = loadingChunks]_vars

\* C33 witness: resetViewport has been called with a chunk present, a key
\* marked loading, a pixel selected, and the viewport away from home before.
C33_Witness ==
    /\ lastOp.op = "resetViewport"
    /\ DOMAIN chunks # {}
    /\ \E k \in DOMAIN loadingChunks : loadingChunks[k]
    /\ viewport.selectedX # NullCoord
    /\ rendered = FALSE

\* C36: updatePixel(x, y, color) for a cell whose chunk is not present
\* changes neither chunks nor loadingChunks nor the viewport, and getPixel(x,
\* y) is null afterwards; an updatePixel changes what getPixel returns only
\* for cells of chunks that are present.
C36_UpdateOfAbsentChunkIsNoOp ==
    [][lastOp'.op = "updatePixel" =>
         /\ lastOp'.key \notin DOMAIN chunks =>
              /\ UNCHANGED <<chunks, loadingChunks, viewport>>
              /\ GetPixelColor(chunks', lastOp'.cell[1], lastOp'.cell[2]) = "null"
         /\ \A x \in 0..(GridWidth - 1), y \in 0..(GridHeight - 1) :
              GetPixelColor(chunks', x, y) # GetPixelColor(chunks, x, y)
                  => KeyOf(x, y) \in DOMAIN chunks]_vars

\* C36 witness: updatePixel has been called for a cell whose chunk is marked
\* loading and not present, while another chunk is present.
C36_Witness ==
    /\ lastOp.op = "updatePixel"
    /\ lastOp.key \notin DOMAIN chunks
    /\ lastOp.key \in DOMAIN loadingChunks
    /\ loadingChunks[lastOp.key]
    /\ DOMAIN chunks # {}
    /\ GetPixelColor(chunks, lastOp.cell[1], lastOp.cell[2]) = "null"


(***************************************************************************)
(* Part VIII.  The activity feed                                           *)
(*                                                                         *)
(* The activity list of useUIStore, addActivityItem as the provider calls  *)
(* it for every PixelPainted event, clearActivity, and the clock that      *)
(* Date.now() reads.  ev numbers the events: it stands for the fields of   *)
(* the event that addActivityItem copies and does not look at (color,      *)
(* painter, timestamp).                                                    *)
(***************************************************************************)

\* Bounds: the addActivityItem calls of a run, the milliseconds the clock
\* advances by, and the events at the start of a run whose pixel is any of
\* FeedPixels (the later ones are for the first pixel).
MaxEvents == 52
MaxClock == 1
MaxVaried == 2

\* .slice(0, 50)
ACTIVITY_LIMIT == 50

FeedPixels == {<<0, 0>>, <<1, 10>>}
EventPixels(n) == IF n <= MaxVaried THEN FeedPixels ELSE {<<0, 0>>}

\* String(n) for n >= 0, as the sequence of its characters
DigitChars == <<"0", "1", "2", "3", "4", "5", "6", "7", "8", "9">>
RECURSIVE Decimal(_)
Decimal(n) ==
    IF n < 10 THEN <<DigitChars[n + 1]>>
    ELSE Decimal(n \div 10) \o <<DigitChars[(n % 10) + 1]>>

\* `${item.x}-${item.y}-${Date.now()}`
ItemId(x, y, now) == Decimal(x) \o <<"-">> \o Decimal(y) \o <<"-">> \o Decimal(now)

\* s.slice(0, n)
Slice(s, n) == SubSeq(s, 1, Min(n, Len(s)))

\* The list with the item put first and nothing cut off
NewActivityUncut(item, old) == <<item>> \o old

\* [{ ...item, id }, ...state.activity].slice(0, 50)
NewActivity(item, old) == Slice(<<item>> \o old, ACTIVITY_LIMIT)

\* The store as created.
FeedInit ==
    /\ SchedIdle
    /\ CacheIdle
    /\ VisIdle
    /\ SubIdle
    /\ ProviderIdle
    /\ WriteIdle
    /\ SectionIdle
    /\ activity = <<>>
    /\ clock = 0
    /\ added = <<>>
    /\ eventCount = 0

\* addActivityItem(event) for an event of pixel (x, y)
AddActivityItem(x, y) ==
    /\ eventCount < MaxEvents
    /\ LET item == [x |-> x, y |-> y, ev |-> eventCount + 1, id |-> ItemId(x, y, clock)]
       IN /\ activity' = NewActivity(item, activity)
          /\ added' = Append(added, item)
    /\ eventCount' = eventCount + 1
    /\ UNCHANGED clock
    /\ UNCHANGED nonFeedVars

\* clearActivity()
ClearActivity ==
    /\ activity' = <<>>
    /\ added' = <<>>
    /\ UNCHANGED <<clock, eventCount>>
    /\ UNCHANGED nonFeedVars

\* A millisecond passes
ClockTicks ==
    /\ clock < MaxClock
    /\ clock' = clock + 1
    /\ UNCHANGED <<activity, added, eventCount>>
    /\ UNCHANGED nonFeedVars

FeedNext ==
    \/ \E px \in EventPixels(eventCount + 1) : AddActivityItem(px[1], px[2])
    \/ ClearActivity
    \/ ClockTicks

FeedSpec == FeedInit /\ [][FeedNext]_vars

(***************************************************************************)
(* Part VIII.  Properties of the activity feed                             *)
(***************************************************************************)

\* C39: no two items of the activity list have the same id.
C39_ActivityIdsUnique ==
    \A i, j \in DOMAIN activity : i # j => activity[i].id # activity[j].id

\* C40: the activity list holds at most ACTIVITY_LIMIT items; they are the
\* items added last since the last clearActivity, the newest first.
C40_FeedIsNewestFifty ==
    /\ Len(activity) <= ACTIVITY_LIMIT
    /\ Len(activity) = Min(Len(added), ACTIVITY_LIMIT)
    /\ \A i \in DOMAIN activity : activity[i] = added[Len(added) - i + 1]

\* C40 witness: after a clear more than ACTIVITY_LIMIT items were added, so
\* the oldest of them is no longer in the list.
C40_Witness ==
    /\ Len(added) > ACTIVITY_LIMIT
    /\ added[1].ev > 1
    /\ Len(activity) = ACTIVITY_LIMIT
    /\ activity[ACTIVITY_LIMIT].ev = added[2].ev

====
